---- MODULE Spec2Model ----
(***************************************************************************)
(* Model of the verify-phone repository: the verifyPhone orchestrator      *)
(* (src/src/verify-phone.ts) with its phone normalizer / validator, the    *)
(* two VoIP classifiers, the SNS client's response extraction, and the     *)
(* Hono server (src/src/verify-phone-server.js) that wraps it.             *)
(* Further parts: the request signing of the SNS client, two verifyPhone   *)
(* calls under way at once, and createClient / sendSMS of src/src/sns.js.  *)
(*                                                                         *)
(* JavaScript strings are sequences of one-character strings.  JavaScript  *)
(* values that may be absent are records [t, v] with t the type tag.       *)
(***************************************************************************)
EXTENDS Integers, Sequences, FiniteSets, TLC

\* ------------------------------------------------------------------ bounds

\* Longest run of one repeated digit in a generated phone input.
MaxRun == 17

\* Requests the server model counts in one rate-limit window before it waits
\* for the window to end.
MaxRequests == 2

\* The same for the model of the rate limiter alone, which has to get past
\* the limit.
MaxWindowRequests == 102

\* Requests the signing model signs, and how far its clock runs: seconds
\* within a day, and days.
MaxSigned == 3
MaxSec == 1
MaxDay == 1

\* ------------------------------------------------------------ JS values

Undefined == [t |-> "undefined", v |-> <<>>]
Null == [t |-> "null", v |-> <<>>]
Str(s) == [t |-> "string", v |-> s]
Num == [t |-> "number", v |-> <<>>]

IsStr(x) == x.t = "string"

\* JavaScript truthiness of a value of the model.
Truthy(x) == CASE x.t = "undefined" -> FALSE
               [] x.t = "null" -> FALSE
               [] x.t = "string" -> x.v # <<>>
               [] OTHER -> TRUE

\* ------------------------------------------------------------ characters

Digit == {"0", "1", "2", "3", "4", "5", "6", "7", "8", "9"}
NonZeroDigit == Digit \ {"0"}
LowerSeq == <<"a","b","c","d","e","f","g","h","i","j","k","l","m",
              "n","o","p","q","r","s","t","u","v","w","x","y","z">>
UpperSeq == <<"A","B","C","D","E","F","G","H","I","J","K","L","M",
              "N","O","P","Q","R","S","T","U","V","W","X","Y","Z">>
Lower == {LowerSeq[i] : i \in 1..26}
Upper == {UpperSeq[i] : i \in 1..26}
Alnum == Digit \cup Lower \cup Upper

DigitSeq == <<"0", "1", "2", "3", "4", "5", "6", "7", "8", "9">>
DigitVal(c) == (CHOOSE i \in 1..10 : DigitSeq[i] = c) - 1

\* String.prototype.toLowerCase on one character.
LowerChar(c) == IF c \in Upper
                THEN LowerSeq[CHOOSE i \in 1..26 : UpperSeq[i] = c]
                ELSE c
toLowerCase(s) == [i \in 1..Len(s) |-> LowerChar(s[i])]

\* String.prototype.includes / startsWith / endsWith.
includes(s, sub) ==
    \E i \in 0..(Len(s) - Len(sub)) :
        \A j \in 1..Len(sub) : s[i + j] = sub[j]
startsWith(s, pre) ==
    Len(s) >= Len(pre) /\ \A j \in 1..Len(pre) : s[j] = pre[j]
endsWith(s, suf) ==
    Len(s) >= Len(suf)
    /\ \A j \in 1..Len(suf) : s[Len(s) - Len(suf) + j] = suf[j]

\* k copies of the character c.
Rep(c, k) == [i \in 1..k |-> c]

\* ------------------------------------------------- normalizer / validator

IsDigitChar(c) == c \in Digit

\* phone.replace(/\D/g, '')
StripNonDigits(s) == SelectSeq(s, IsDigitChar)

\* The pattern with \d for [1-9].
phoneRegex_ZeroLead(s) ==
    /\ Len(s) >= 3
    /\ Len(s) <= 16
    /\ s[1] = "+"
    /\ \A i \in 2..Len(s) : s[i] \in Digit

\* /^\+[1-9]\d{1,14}$/.test(phone)
phoneRegex(s) ==
    /\ Len(s) >= 3
    /\ Len(s) <= 16
    /\ s[1] = "+"
    /\ s[2] \in NonZeroDigit
    /\ \A i \in 3..Len(s) : s[i] \in Digit

\* formatPhoneNumber without its branch for 11 digits.
formatPhoneNumber_NoElevenDigits(phone) ==
    LET cleaned == StripNonDigits(phone) IN
    IF Len(cleaned) = 10 THEN <<"+", "1">> \o cleaned
    ELSE IF startsWith(phone, <<"+">>) THEN phone
    ELSE <<"+">> \o cleaned

\* formatPhoneNumber with cleaned.length <= 10 for cleaned.length === 10.
formatPhoneNumber_AtMostTen(phone) ==
    LET cleaned == StripNonDigits(phone) IN
    IF Len(cleaned) <= 10 THEN <<"+", "1">> \o cleaned
    ELSE IF Len(cleaned) = 11 /\ startsWith(cleaned, <<"1">>) THEN <<"+">> \o cleaned
    ELSE IF startsWith(phone, <<"+">>) THEN phone
    ELSE <<"+">> \o cleaned

\* formatPhoneNumber on a string.
formatPhoneNumber(phone) ==
    LET cleaned == StripNonDigits(phone) IN
    IF Len(cleaned) = 10 THEN <<"+", "1">> \o cleaned
    ELSE IF Len(cleaned) = 11 /\ startsWith(cleaned, <<"1">>) THEN <<"+">> \o cleaned
    ELSE IF startsWith(phone, <<"+">>) THEN phone
    ELSE <<"+">> \o cleaned

\* isValidPhoneNumber without its length bounds.
isValidPhoneNumberBasic_NoLength(phone) == phoneRegex(phone)

\* The regex branch of isValidPhoneNumber.
isValidPhoneNumberBasic(phone) ==
    phoneRegex(phone) /\ Len(phone) >= 7 /\ Len(phone) <= 16

\* isValidPhoneNumber's code check: /^[a-zA-Z0-9]{4,}$/.test(code)
codeRegex(s) == Len(s) >= 4 /\ \A i \in 1..Len(s) : s[i] \in Alnum

\* --------------------------------------------- libphonenumber-js (imported)

\* Characters the library accepts between the digits of a number.
Punct == {" ", "-", "(", ")", "."}

ParseFailure(libThrows) ==
    [status |-> IF libThrows THEN "throws" ELSE "undefined", valid |-> FALSE,
     country |-> "none", national |-> <<>>, e164 |-> <<>>, nonGeographic |-> FALSE]

DropLeading(s) ==
    LET idx == {i \in 1..Len(s) : s[i] \in Digit \cup {"+"}} IN
    IF idx = {} THEN <<>>
    ELSE LET first == CHOOSE i \in idx : \A j \in idx : i <= j IN
         SubSeq(s, first, Len(s))

\* parsePhoneNumber(text) without a default country.  A text that is no
\* string raises; a text that is no international number either raises or
\* gives undefined, depending on the library version (libThrows).  The
\* numbering plan is cut down to the NANP (+1), the United Kingdom's mobile
\* and freephone ranges (+44 7..., +44 800...) and the international
\* freephone code (+800).
parsePhoneNumber(x, libThrows) ==
    IF ~IsStr(x) THEN ParseFailure(TRUE)
    ELSE
    LET s == DropLeading(x.v)
        d == StripNonDigits(s)
        ok(country, national, valid, nongeo) ==
            [status |-> "ok", valid |-> valid, country |-> country,
             national |-> national, e164 |-> <<"+">> \o d, nonGeographic |-> nongeo]
    IN
    IF s = <<>> \/ s[1] # "+" THEN ParseFailure(libThrows)
    ELSE IF \E i \in 2..Len(s) : s[i] \notin Digit \cup Punct THEN ParseFailure(libThrows)
    ELSE IF Len(d) > 17 THEN ParseFailure(libThrows)
    ELSE IF startsWith(d, <<"1">>) /\ Len(d) >= 3 THEN
        LET n == SubSeq(d, 2, Len(d)) IN
        ok("US", n, Len(n) = 10 /\ n[1] \notin {"0", "1"} /\ n[4] \notin {"0", "1"}, FALSE)
    ELSE IF startsWith(d, <<"4", "4">>) /\ Len(d) >= 4 THEN
        LET n == SubSeq(d, 3, Len(d)) IN
        ok("GB", n, Len(n) = 10 /\ (n[1] = "7" \/ startsWith(n, <<"8", "0", "0">>)), FALSE)
    ELSE IF startsWith(d, <<"8", "0", "0">>) /\ Len(d) >= 5 THEN
        LET n == SubSeq(d, 4, Len(d)) IN
        ok("001", n, Len(n) = 8, TRUE)
    ELSE ParseFailure(libThrows)

\* The answers getNumberType can give, "throws" when it raises.
NumberTypes == {"VOIP", "PREMIUM_RATE", "TOLL_FREE", "SHARED_COST", "MOBILE",
                "FIXED_LINE", "FIXED_LINE_OR_MOBILE", "undefined", "throws"}

\* ------------------------------------------------- format / validate (JS)

\* formatPhoneNumber on any value: a value that is no string has no replace
\* method, which raises a TypeError.
formatPhoneNumberJS(x) ==
    IF IsStr(x) THEN [throws |-> FALSE, v |-> formatPhoneNumber(x.v)]
    ELSE [throws |-> TRUE, v |-> <<>>]

formatPhoneNumberLibPhoneNumber(x, libThrows) ==
    LET p == parsePhoneNumber(x, libThrows) IN
    IF p.status = "ok" /\ p.valid THEN [throws |-> FALSE, v |-> p.e164]
    ELSE formatPhoneNumberJS(x)

isValidPhoneNumber(phone, useLibPhoneNumber, libThrows) ==
    LET p == parsePhoneNumber(Str(phone), libThrows) IN
    IF useLibPhoneNumber /\ p.status = "ok" THEN p.valid
    ELSE IF useLibPhoneNumber /\ p.status = "undefined" THEN FALSE
    ELSE isValidPhoneNumberBasic(phone)

\* ------------------------------------------------------ VoIP classifiers

W_bandwidth == <<"b", "a", "n", "d", "w", "i", "d", "t", "h">>
W_voip == <<"v", "o", "i", "p">>
W_mobile == <<"m", "o", "b", "i", "l", "e">>

\* A lookup classifier that compares the carrier name as it is spelled.
isPhoneNumberVoip_CaseSensitive(r) ==
    IF r.kind # "json" THEN FALSE
    ELSE IF r.isNull \/ ~r.carrier THEN FALSE
    ELSE IF ~IsStr(r.name) THEN FALSE
    ELSE IF includes(r.name.v, W_bandwidth) THEN TRUE
    ELSE IF ~IsStr(r.type) THEN FALSE
    ELSE IF toLowerCase(r.type.v) = W_voip THEN TRUE
    ELSE IF ~r.portability THEN FALSE
    ELSE IF ~IsStr(r.line_type) THEN FALSE
    ELSE toLowerCase(r.line_type.v) = W_mobile

\* The value isPhoneNumberVoip resolves to, given the outcome of its fetch.
\* A lookup outcome is [kind, isNull, carrier, name, type, portability,
\* line_type]: kind "network_error" (fetch rejects), "http_error"
\* (!response.ok), "bad_json" (response.json() rejects) or "json"; for
\* "json", isNull says the body is null, carrier / portability say whether
\* that object is present, and name, type, line_type are its fields.
\* Reading a property of undefined, or calling toLowerCase on a value that
\* is no string, raises inside the try block, which returns false.
isPhoneNumberVoip(r) ==
    IF r.kind # "json" THEN FALSE
    ELSE IF r.isNull \/ ~r.carrier THEN FALSE
    ELSE IF ~IsStr(r.name) THEN FALSE
    ELSE IF includes(toLowerCase(r.name.v), W_bandwidth) THEN TRUE
    ELSE IF ~IsStr(r.type) THEN FALSE
    ELSE IF toLowerCase(r.type.v) = W_voip THEN TRUE
    ELSE IF ~r.portability THEN FALSE
    ELSE IF ~IsStr(r.line_type) THEN FALSE
    ELSE toLowerCase(r.line_type.v) = W_mobile

\* The list with its toll-free codes only.
voipAreaCodes_TollFreeOnly ==
    {<<"8","0","0">>, <<"8","8","8">>, <<"8","7","7">>, <<"8","6","6">>,
     <<"8","5","5">>, <<"8","4","4">>, <<"8","3","3">>}

voipAreaCodes ==
    {<<"8","0","0">>, <<"8","8","8">>, <<"8","7","7">>, <<"8","6","6">>,
     <<"8","5","5">>, <<"8","4","4">>, <<"8","3","3">>,
     <<"9","0","0">>, <<"9","7","6">>,
     <<"7","0","0">>,
     <<"5","0","0">>, <<"5","2","1">>, <<"5","2","2">>, <<"5","2","3">>,
     <<"5","2","4">>, <<"5","2","5">>, <<"5","2","6">>, <<"5","2","7">>,
     <<"5","2","8">>, <<"5","2","9">>,
     <<"6","0","0">>, <<"6","0","1">>, <<"6","0","2">>, <<"6","0","3">>,
     <<"6","0","4">>, <<"6","0","5">>, <<"6","0","6">>, <<"6","0","7">>,
     <<"6","0","8">>, <<"6","0","9">>}

\* nationalNumber.substring(0, 3)
substring3(n) == SubSeq(n, 1, IF Len(n) < 3 THEN Len(n) ELSE 3)

\* /(\d)\1{2,}/.test(n)
hasRepeatedDigits(n) ==
    \E i \in 1..(Len(n) - 2) :
        n[i] \in Digit /\ n[i + 1] = n[i] /\ n[i + 2] = n[i]

\* One repetition of the group 0(?=1)|1(?=2)|...|8(?=9) at position i: a
\* digit below 9 that its successor follows.
stepAt(n, i) ==
    /\ i + 1 <= Len(n)
    /\ n[i] \in Digit \ {"9"}
    /\ n[i + 1] \in Digit
    /\ DigitVal(n[i + 1]) = DigitVal(n[i]) + 1

\* /(?:0(?=1)|1(?=2)|2(?=3)|3(?=4)|4(?=5)|5(?=6)|6(?=7)|7(?=8)|8(?=9)){3,}/.test(n)
hasSequentialDigits(n) ==
    \E i \in 1..Len(n) : stepAt(n, i) /\ stepAt(n, i + 1) /\ stepAt(n, i + 2)

\* voipEndings.some(ending => nationalNumber.endsWith(ending))
hasVoipEnding(n) == \E c \in Digit : endsWith(n, Rep(c, 4))

\* The test with || for &&.
hasFewUniqueDigits_Either(n) ==
    Cardinality({n[i] : i \in 1..Len(n)}) <= 3 \/ Len(n) >= 7

\* uniqueDigits.size <= 3 && nationalNumber.length >= 7
hasFewUniqueDigits(n) ==
    Cardinality({n[i] : i \in 1..Len(n)}) <= 3 /\ Len(n) >= 7

\* Rules 4 to 7, the digit patterns.
patternRules(n) ==
    hasRepeatedDigits(n) \/ hasSequentialDigits(n) \/ hasVoipEnding(n)
        \/ hasFewUniqueDigits(n)

\* A heuristic classifier that takes a number it cannot parse or finds
\* invalid for VoIP.
isPhoneNumberVoipLibPhoneNumber_InvalidIsVoip(phone, metadataType, libThrows, numberType) ==
    LET p == parsePhoneNumber(Str(phone), libThrows) IN
    IF p.status # "ok" THEN TRUE
    ELSE IF ~p.valid THEN TRUE
    ELSE IF p.country = "US" /\ substring3(p.national) \in voipAreaCodes THEN TRUE
    ELSE IF p.nonGeographic THEN TRUE
    ELSE IF metadataType = "full"
            /\ numberType \in {"VOIP", "PREMIUM_RATE", "TOLL_FREE", "SHARED_COST"} THEN TRUE
    ELSE IF metadataType = "full" /\ numberType \in {"MOBILE", "FIXED_LINE"} THEN FALSE
    ELSE patternRules(p.national)

\* A heuristic classifier that asks for the number type whatever the
\* metadata.
isPhoneNumberVoipLibPhoneNumber_TypeAlways(phone, metadataType, libThrows, numberType) ==
    LET p == parsePhoneNumber(Str(phone), libThrows) IN
    IF p.status # "ok" THEN FALSE
    ELSE IF ~p.valid THEN FALSE
    ELSE IF p.country = "US" /\ substring3(p.national) \in voipAreaCodes THEN TRUE
    ELSE IF p.nonGeographic THEN TRUE
    ELSE IF numberType \in {"VOIP", "PREMIUM_RATE", "TOLL_FREE", "SHARED_COST"} THEN TRUE
    ELSE IF numberType \in {"MOBILE", "FIXED_LINE"} THEN FALSE
    ELSE patternRules(p.national)

\* isPhoneNumberVoipLibPhoneNumber(phone, metadataType); numberType is what
\* getNumberType answers for this number.
isPhoneNumberVoipLibPhoneNumber(phone, metadataType, libThrows, numberType) ==
    LET p == parsePhoneNumber(Str(phone), libThrows) IN
    IF p.status # "ok" THEN FALSE
    ELSE IF ~p.valid THEN FALSE
    ELSE IF p.country = "US" /\ substring3(p.national) \in voipAreaCodes THEN TRUE
    ELSE IF p.nonGeographic THEN TRUE
    ELSE IF metadataType = "full"
            /\ numberType \in {"VOIP", "PREMIUM_RATE", "TOLL_FREE", "SHARED_COST"} THEN TRUE
    ELSE IF metadataType = "full" /\ numberType \in {"MOBILE", "FIXED_LINE"} THEN FALSE
    ELSE patternRules(p.national)

\* ------------------------------------------------------------ SNS client

\* The first element <tag>text</tag> of a body whose text is not empty
\* ([^<]+ needs a character); a body is a sequence of elements [tag, text].
xmlMatch(body, tag) ==
    LET idx == {i \in 1..Len(body) : body[i].tag = tag /\ body[i].text # <<>>} IN
    IF idx = {} THEN Null
    ELSE Str(body[CHOOSE i \in idx : \A j \in idx : i <= j].text)

\* What parseXMLResponse or makeRequest does: it raises an Error with a
\* message, or returns an object that has a MessageId or a raw field.
Raised(message) ==
    [throws |-> TRUE, MessageId |-> Undefined, raw |-> Undefined, message |-> message]
Returned(MessageId, raw) ==
    [throws |-> FALSE, MessageId |-> MessageId, raw |-> raw, message |-> <<>>]

\* parseXMLResponse that looks for the message id first.
parseXMLResponse_IdFirst(body) ==
    LET messageIdMatch == xmlMatch(body, "MessageId")
        errorCodeMatch == xmlMatch(body, "Code")
        errorMessageMatch == xmlMatch(body, "Message")
    IN
    IF Truthy(messageIdMatch) THEN Returned(messageIdMatch, Undefined)
    ELSE IF Truthy(errorCodeMatch) /\ Truthy(errorMessageMatch)
    THEN Raised(errorCodeMatch.v \o <<": ">> \o errorMessageMatch.v)
    ELSE Returned(Undefined, [t |-> "string", v |-> body])

\* SNSClient.parseXMLResponse: raises when both an error code and an error
\* message are found, else gives { MessageId } or { raw }.
parseXMLResponse(body) ==
    LET messageIdMatch == xmlMatch(body, "MessageId")
        errorCodeMatch == xmlMatch(body, "Code")
        errorMessageMatch == xmlMatch(body, "Message")
    IN
    IF Truthy(errorCodeMatch) /\ Truthy(errorMessageMatch)
    THEN Raised(errorCodeMatch.v \o <<": ">> \o errorMessageMatch.v)
    ELSE IF Truthy(messageIdMatch) THEN Returned(messageIdMatch, Undefined)
    ELSE Returned(Undefined, [t |-> "string", v |-> body])

\* What the awaited part of SNSClient.makeRequest does with the outcome of
\* its fetch: [kind, ok, body], kind "network_error" when fetch or
\* response.text() rejects.  Every error is rethrown with a prefix.
makeRequestResult(r) ==
    LET parsed == parseXMLResponse(r.body) IN
    IF r.kind = "network_error"
    THEN Raised(<<"SNS Request failed: ", "fetch failed">>)
    ELSE IF ~r.ok
    THEN Raised(<<"SNS Request failed: ", "SNS API Error: ">>)
    ELSE IF parsed.throws
    THEN Raised(<<"SNS Request failed: ">> \o parsed.message)
    ELSE parsed

\* --------------------------------------------------- SNS client: signing

\* Texts are sequences of pieces: a piece is one character, or a longer run
\* of the characters no encoder touches (letters, digits, "-", ".", "_").
\* Digests are kept symbolic: the digest of x is x between two marks, so
\* that two digests are equal exactly when their inputs are.

\* Region names.
R_us_east_1 == <<"us-east-1">>
R_eu_west_1 == <<"eu-west-1">>

\* `${x}` for a value x.
templateText(x) == IF IsStr(x) THEN x.v ELSE <<x.t>>

\* crypto.subtle.digest('SHA-256', ...) then arrayBufferToHex.
sha256hex(x) == <<"sha256(">> \o x \o <<")">>

\* importKey(key) then crypto.subtle.sign('HMAC', key, data).
hmac(key, data) == <<"hmac(">> \o key \o <<",">> \o data \o <<")">>

\* arrayBufferToHex of a signature.
arrayBufferToHex(x) == <<"hex(">> \o x \o <<")">>

\* Runs of unreserved characters the requests are made of.
Chunks == {"Publish", "2010-03-31", "AWS.SNS.SMS.SenderID", "AWS.SNS.SMS.SMSType",
           "String", "Verify", "Transactional", "Hi", "code", "1234", "12069247385"}

\* The percent-encoding of a character.
PercentCode(c) ==
    CASE c = " " -> "%20"
      [] c = "+" -> "%2B"
      [] c = ":" -> "%3A"
      [] c = "*" -> "%2A"
      [] c = "~" -> "%7E"
      [] c = "!" -> "%21"
      [] OTHER -> "%3F"

\* URLSearchParams.toString(): application/x-www-form-urlencoded.  Letters,
\* digits, "*", "-", ".", "_" stay, a space becomes "+", the rest is
\* percent-encoded.
formEncode(s) ==
    [i \in 1..Len(s) |->
        IF s[i] \in Alnum \cup Chunks \cup {"*", "-", ".", "_"} THEN s[i]
        ELSE IF s[i] = " " THEN "+"
        ELSE PercentCode(s[i])]

\* The names of parameters and headers in the order of their UTF-16 code
\* units, which is the order Array.prototype.sort() puts strings in.
NamesInCodeUnitOrder ==
    <<"Action", "Content-Type", "Message",
      "MessageAttributes.entry.1.Name",
      "MessageAttributes.entry.1.Value.DataType",
      "MessageAttributes.entry.1.Value.StringValue",
      "MessageAttributes.entry.2.Name",
      "MessageAttributes.entry.2.Value.DataType",
      "MessageAttributes.entry.2.Value.StringValue",
      "PhoneNumber", "Version", "X-Custom",
      "accept", "authorization", "content-type", "host", "x-amz-content-sha256", "x-amz-date",
      "x-custom">>
CodeUnitRank(name) == CHOOSE i \in 1..Len(NamesInCodeUnitOrder) : NamesInCodeUnitOrder[i] = name
CodeUnitLess(a, b) == CodeUnitRank(a.key) < CodeUnitRank(b.key)

\* key.toLowerCase() for a header name.
lowerName(key) ==
    CASE key = "Content-Type" -> "content-type"
      [] key = "X-Custom" -> "x-custom"
      [] OTHER -> key

\* An entry of a JavaScript object or of URLSearchParams.
Entry(key, value) == [key |-> key, value |-> value]

\* headers[key] = value on an object kept as its entries in insertion order.
setHeader(headers, key, value) ==
    IF \E i \in 1..Len(headers) : headers[i].key = key
    THEN [i \in 1..Len(headers) |->
             IF headers[i].key = key THEN Entry(key, value) ELSE headers[i]]
    ELSE Append(headers, Entry(key, value))

\* parts.join(sep) for a sequence of texts.
RECURSIVE join(_, _)
join(parts, sep) ==
    IF parts = <<>> THEN <<>>
    ELSE IF Len(parts) = 1 THEN parts[1]
    ELSE parts[1] \o sep \o join(Tail(parts), sep)

\* now.toISOString().replace(/[:\-]|\.\d{3}/g, ''): date and time to the
\* second; the clock is [day, sec].
amzDateOf(now) == <<"D", ToString(now.day), "T", ToString(now.sec), "Z">>

\* amzDate.slice(0, 8)
dateStampOf(now) == <<"D", ToString(now.day)>>

\* The SNSClient constructor.
SNSClient(accessKeyId, secretAccessKey, awsRegion) ==
    [accessKeyId |-> accessKeyId, secretAccessKey |-> secretAccessKey,
     region |-> IF Truthy(awsRegion) THEN awsRegion.v ELSE R_us_east_1]

\* this.endpoint
endpointOf(this) == <<"https://sns.">> \o this.region \o <<".amazonaws.com">>

\* new URLSearchParams({ Action, Version, ...params }): the entries in
\* insertion order.
queryParamsOf(action, params) ==
    <<Entry("Action", <<action>>), Entry("Version", <<"2010-03-31">>)>> \o params

\* queryParams.toString()
queryString(queryParams) ==
    join([i \in 1..Len(queryParams) |->
             <<queryParams[i].key, "=">> \o formEncode(queryParams[i].value)],
         <<"&">>)

\* url.split('?')[1] || '': what lies between the first "?" and the next.
canonicalQuerystringOf(url) ==
    LET marks == {i \in 1..Len(url) : url[i] = "?"} IN
    IF marks = {} THEN <<>>
    ELSE LET first == CHOOSE i \in marks : \A j \in marks : i <= j
             later == {i \in marks : i > first}
             last == IF later = {} THEN Len(url) + 1
                     ELSE CHOOSE i \in later : \A j \in later : i <= j
         IN SubSeq(url, first + 1, last - 1)

\* SNSClient.sign(method, url, headers, payload) at the time now.  It writes
\* into the headers object it is given and returns that object; the record
\* holds the object after the call and the values computed on the way.
sign(this, method, url, headers, payload, now) ==
    LET amzDate == amzDateOf(now)
        dateStamp == dateStampOf(now)
        canonicalUri == <<"/">>
        canonicalQuerystring == canonicalQuerystringOf(url)
        payloadHash == sha256hex(payload)
        h3 == setHeader(setHeader(setHeader(headers,
                  "host", <<"sns.">> \o this.region \o <<".amazonaws.com">>),
                  "x-amz-date", amzDate),
                  "x-amz-content-sha256", payloadHash)
        sorted == SortSeq(h3, CodeUnitLess)
        sortedHeaders == join([i \in 1..Len(sorted) |->
                                  <<lowerName(sorted[i].key), ":">> \o sorted[i].value],
                              <<"\n">>)
        signedHeaders == join([i \in 1..Len(sorted) |-> <<lowerName(sorted[i].key)>>],
                              <<";">>)
        canonicalRequest == join(<<method, canonicalUri, canonicalQuerystring,
                                   sortedHeaders, <<>>, signedHeaders, payloadHash>>,
                                 <<"\n">>)
        algorithm == <<"AWS4-HMAC-SHA256">>
        credentialScope == dateStamp \o <<"/">> \o this.region \o <<"/sns/aws4_request">>
        canonicalRequestHash == sha256hex(canonicalRequest)
        stringToSign == join(<<algorithm, amzDate, credentialScope, canonicalRequestHash>>,
                             <<"\n">>)
        kDate == hmac(<<"AWS4">> \o templateText(this.secretAccessKey), dateStamp)
        kRegion == hmac(kDate, this.region)
        kService == hmac(kRegion, <<"sns">>)
        kSigning == hmac(kService, <<"aws4_request">>)
        signature == arrayBufferToHex(hmac(kSigning, stringToSign))
        authorization ==
            algorithm \o <<" Credential=">> \o templateText(this.accessKeyId) \o <<"/">>
                \o credentialScope \o <<", SignedHeaders=">> \o signedHeaders
                \o <<", Signature=">> \o signature
    IN [headers |-> setHeader(h3, "authorization", authorization),
        canonicalRequest |-> canonicalRequest,
        sortedHeaders |-> sortedHeaders,
        signedHeaders |-> signedHeaders,
        signature |-> signature,
        authorization |-> authorization]

\* ------------------------------------------------------------- inputs

\* Phone numbers given by callers: the numbers of the tests and README,
\* and every prefix below followed by a run of 0..MaxRun equal digits.
P_00 == <<"+", "1", "2", "0", "6", "9", "2", "4", "7", "3", "8", "5">>   \* "+12069247385"
P_01 == <<"2", "0", "6", "9", "2", "4", "7", "3", "8", "5">>   \* "2069247385"
P_02 == <<"(", "2", "0", "6", ")", " ", "9", "2", "4", "-", "7", "3", "8", "5">>   \* "(206) 924-7385"
P_03 == <<"+", "1", " ", "(", "2", "0", "6", ")", " ", "9", "2", "4", "-", "7", "3", "8", "5">>   \* "+1 (206) 924-7385"
P_04 == <<"1", "2", "0", "6", "9", "2", "4", "7", "3", "8", "5">>   \* "12069247385"
P_05 == <<"+", "1", "8", "0", "0", "5", "5", "5", "1", "2", "3", "4">>   \* "+18005551234"
P_06 == <<"+", "1", "2", "0", "6", "5", "5", "5", "1", "2", "3", "4">>   \* "+12065551234"
P_07 == <<"+", "1", "2", "0", "6", "7", "8", "9", "4", "0", "2", "5">>   \* "+12067894025"
P_08 == <<"+", "4", "4", "7", "8", "0", "6", "9", "1", "5", "2", "4", "3">>   \* "+447806915243"
P_09 == <<"+", "4", "4", "2", "0", "6", "9", "2", "4", "7", "3", "8", "5">>   \* "+442069247385"
P_10 == <<"+", "8", "0", "0", "2", "4", "6", "8", "1", "3", "5", "7">>   \* "+80024681357"
P_11 == <<"+", "2", "0", "6", "9", "2", "4", "7", "3", "8", "5">>   \* "+2069247385"
P_12 == <<"+", "1", "2", "0", "6", "9", "2", "4", "7", "3", "8", "x">>   \* "+1206924738x"
P_13 == <<"n", "o", "t", "-", "a", "-", "n", "u", "m", "b", "e", "r">>   \* "not-a-number"
P_14 == <<"+">>   \* "+"
P_15 == <<>>   \* ""
P_16 == <<"a", "b", "c", "1", "2", "3", "d", "e", "f">>   \* "abc123def"
P_17 == <<"1", "2", "3">>   \* "123"
P_18 == <<"1", "2", "3", "4", "5", "6", "7", "8", "9", "0", "1", "2", "3", "4", "5", "6", "7", "8", "9", "0">>   \* "12345678901234567890"
P_19 == <<"5", "5", "5", "1", "2", "3", "4", "5", "6", "7">>   \* "5551234567"
P_20 == <<"+", "1", "2", "3", "4", "5", "6", "7", "8", "9", "0">>   \* "+1234567890"
P_21 == <<"+", "4", "7", "4", "1", "2", "9", "3", "6", "8", "5">>   \* "+4741293685"
P_22 == <<"+", "4", "4", "8", "0", "0", "4", "0", "2", "1", "9", "3", "5">>   \* "+448004021935"
P_23 == <<"+", "1", "8", "0", "0", "4", "0", "2", "1", "9", "3", "5">>   \* "+18004021935"
P_24 == <<"+", "1", "9", "0", "0", "4", "0", "2", "1", "9", "3", "5">>   \* "+19004021935"
P_25 == <<"+", "1", "5", "2", "3", "4", "0", "2", "1", "9", "3", "6">>   \* "+15234021936"
P_26 == <<"+", "1", "2", "0", "6", "7", "8", "9", "2", "4", "1", "5">>   \* "+12067892415"
P_27 == <<"+", "1", "2", "0", "2", "7", "8", "9", "1", "4", "3", "5">>   \* "+12027891435"

LiteralPhones == {P_00, P_01, P_02, P_03, P_04, P_05, P_06, P_07, P_08, P_09, P_10, P_11, P_12, P_13, P_14, P_15, P_16, P_17, P_18, P_19, P_20, P_21, P_22, P_23, P_24, P_25, P_26, P_27}

PhonePrefixes == {<<>>, <<"+">>, <<"+", "1">>, <<"1">>, <<"+", "0">>, <<"+", "4", "4", "7">>,
                  <<"(">>, <<"a">>, <<"+", "1", " ">>, <<"+", "9">>}
RunDigits == {"5", "6"}
GeneratedPhones == {pre \o Rep(d, k) : pre \in PhonePrefixes, d \in RunDigits, k \in 0..MaxRun}

PhonesAll == LiteralPhones \cup GeneratedPhones
PhonesFew == {P_00, P_02, P_05, P_13, P_19}

Code_empty == <<>>
Code_12 == <<"1", "2">>
Code_123 == <<"1", "2", "3">>
Code_1234 == <<"1", "2", "3", "4">>
Code_12_sp_4 == <<"1", "2", " ", "4">>
Code_abcd == <<"a", "b", "c", "d">>
Code_ABC123 == <<"A", "B", "C", "1", "2", "3">>
Code_1234_bang == <<"1", "2", "3", "4", "!">>
Code_GENERAL == <<"G", "E", "N", "E", "R", "A", "L">>
Code_123456 == <<"1", "2", "3", "4", "5", "6">>

Codes == {Undefined} \cup {Str(c) : c \in {Code_empty, Code_12, Code_123, Code_1234, Code_12_sp_4, Code_abcd, Code_ABC123, Code_1234_bang, Code_GENERAL, Code_123456}}

\* Message templates are sequences of atoms: the placeholder "{code}" is one
\* atom, every other atom is text that holds no part of the placeholder.
DefaultTemplate == <<"Your verification code is: ", "{code}", ".">>
Templates == {Undefined, Null, Num,
              Str(<<"MyApp: Your code is ", "{code}", ". Valid for 10 minutes.">>),
              Str(<<"Hello">>),
              Str(<<"{code}", " or ", "{code}">>)}

\* messageTemplate.replace('{code}', code): the first placeholder only.
replaceCode(template, code) ==
    LET idx == {i \in 1..Len(template) : template[i] = "{code}"} IN
    IF idx = {} THEN template
    ELSE LET first == CHOOSE i \in idx : \A j \in idx : i <= j IN
         SubSeq(template, 1, first - 1) \o code \o SubSeq(template, first + 1, Len(template))

KeyId == Str(<<"AKIDEXAMPLE">>)
Secret == Str(<<"wJalrXUtnFEMI">>)
EnvKeyId == Str(<<"ENVKEYID">>)
EnvSecret == Str(<<"ENVSECRET">>)

\* The options object of one verifyPhone call.  t says whether the argument
\* is an object, null, or absent (undefined, which the parameter default
\* turns into {}).
Options(t, phoneNumber, code, accessKeyId, secretAccessKey, awsRegion, blockVoip, voipDetectionMethod, useLibPhoneNumber, metadataType, messageTemplate) ==
    [t |-> t, phoneNumber |-> phoneNumber, code |-> code, accessKeyId |-> accessKeyId,
     secretAccessKey |-> secretAccessKey, awsRegion |-> awsRegion,
     blockVoip |-> blockVoip, voipDetectionMethod |-> voipDetectionMethod,
     useLibPhoneNumber |-> useLibPhoneNumber, metadataType |-> metadataType,
     messageTemplate |-> messageTemplate]

NoOptions(t) ==
    Options(t, Undefined, Undefined, Undefined, Undefined, Undefined, FALSE,
            "api", FALSE, "minimal", Undefined)

\* Every phone number under both normalizers, without VoIP blocking.
PlainInputs ==
    {Options("object", Str(p), Str(Code_1234), KeyId, Secret, Str(R_us_east_1), FALSE, "api", u,
             "minimal", Undefined) :
        p \in PhonesAll, u \in BOOLEAN}

\* Every phone number with the local heuristic classifier.
HeuristicInputs ==
    {Options("object", Str(p), Str(Code_1234), KeyId, Secret, Str(R_us_east_1), TRUE,
             "libphonenumber", u, md, Undefined) :
        p \in PhonesAll, u \in BOOLEAN, md \in {"minimal", "full"}}

\* The phone numbers of the tests with the external-lookup classifier.
LookupInputs ==
    {Options("object", Str(p), Str(Code_1234), KeyId, Secret, Str(R_us_east_1), TRUE, "api", u,
             "minimal", Undefined) :
        p \in LiteralPhones, u \in BOOLEAN}

\* Every code and every template, with a few phone numbers.
CodeInputs ==
    {Options("object", p, c, KeyId, Secret, Str(R_us_east_1), b, "api", FALSE, "minimal", tpl) :
        p \in {Str(x) : x \in PhonesFew} \cup {Undefined, Num},
        c \in Codes, b \in BOOLEAN, tpl \in Templates}

\* Every way of leaving credentials and region out.
CredentialInputs ==
    {Options("object", Str(p), Str(Code_ABC123), k, sk, r, b, "api", FALSE, "minimal", Undefined) :
        p \in PhonesFew, k \in {KeyId, Undefined}, sk \in {Secret, Undefined},
        r \in {Str(R_us_east_1), Str(R_eu_west_1), Undefined}, b \in BOOLEAN}

NoOptionsInputs == {NoOptions("undefined"), NoOptions("null")}

\* The execution environment: whether a global `process` exists, whether
\* its env holds the AWS variables, how the phone library reports a text it
\* cannot parse, and what its getNumberType answers.
Env(process, envCreds, libThrows, numberType) ==
    [process |-> process, envCreds |-> envCreds, libThrows |-> libThrows,
     numberType |-> numberType]

\* Outcomes of the lookup fetch.
LookupOutcome(kind, isNull, carrier, name, type, portability, line_type) ==
    [kind |-> kind, isNull |-> isNull, carrier |-> carrier, name |-> name, type |-> type,
     portability |-> portability, line_type |-> line_type]

CarrierNames == {Undefined, Num, Str(<<"B","a","n","d","w","i","d","t","h">>),
                 Str(<<"B","A","N","D","W","I","D","T","H",".","c","o","m">>),
                 Str(<<"V","e","r","i","z","o","n">>)}
CarrierTypes == {Undefined, Str(<<"v","o","i","p">>), Str(<<"V","o","I","P">>),
                 Str(<<"m","o","b","i","l","e">>), Str(<<"l","a","n","d","l","i","n","e">>)}
LineTypes == {Undefined, Str(<<"m","o","b","i","l","e">>), Str(<<"M","o","b","i","l","e">>),
              Str(<<"l","a","n","d","l","i","n","e">>)}

LookupOutcomes ==
    {LookupOutcome(k, FALSE, FALSE, Undefined, Undefined, FALSE, Undefined) :
        k \in {"network_error", "http_error", "bad_json"}}
    \cup {LookupOutcome("json", TRUE, FALSE, Undefined, Undefined, FALSE, Undefined),
          LookupOutcome("json", FALSE, FALSE, Undefined, Undefined, FALSE, Undefined)}
    \cup {LookupOutcome("json", FALSE, TRUE, n, t, TRUE, l) :
            n \in CarrierNames, t \in CarrierTypes, l \in LineTypes}
    \cup {LookupOutcome("json", FALSE, TRUE, n, t, FALSE, Undefined) :
            n \in CarrierNames, t \in CarrierTypes}

NoLookup == LookupOutcome("none", FALSE, FALSE, Undefined, Undefined, FALSE, Undefined)

\* Outcomes of the publish fetch.
El(tag, text) == [tag |-> tag, text |-> text]
Bodies == {<<>>,
           <<El("MessageId", <<"abc123">>)>>,
           <<El("MessageId", <<>>)>>,
           <<El("RequestId", <<"r-1">>)>>,
           <<El("Code", <<"Throttled">>), El("Message", <<"rate exceeded">>)>>,
           <<El("Code", <<"Throttled">>)>>,
           <<El("MessageId", <<"abc123">>), El("Code", <<"Throttled">>),
             El("Message", <<"rate exceeded">>)>>,
           <<El("MessageId", <<"m-1">>), El("MessageId", <<"m-2">>)>>}
PublishOutcomes ==
    {[kind |-> "network_error", ok |-> FALSE, body |-> <<>>]}
    \cup {[kind |-> "http", ok |-> ok, body |-> b] : ok \in BOOLEAN, b \in Bodies}
NoPublish == [kind |-> "none", ok |-> FALSE, body |-> <<>>]

\* ------------------------------------------------------------- state

VARIABLES
    env,            \* the execution environment of the call
    opts,           \* the argument of the verifyPhone call
    pc,             \* where the call is: "idle", "lookup", "publish", "done"
    outcome,        \* its promise: "pending", "resolved", "rejected"
    result,         \* the value the promise resolved to
    formattedPhone, \* verifyPhone's local formattedPhone
    net,            \* the requests handed to fetch, in order
    lookupResp,     \* the outcome the lookup fetch had
    publishResp,    \* the outcome the publish fetch had
    cenv,           \* the server's environment bindings (c.env)
    srv,            \* the request the server is handling
    response,       \* the last response the server gave
    received,       \* per IP: requests received in the current window
    handled,        \* per IP: requests passed on by the rate limiter
    sentTo,         \* phone numbers a code was dispatched to
    fn,             \* the function a direct call applied last
    arg,            \* the argument of that call
    ret,            \* what the call returned
    clock,          \* the time new Date() gives, in seconds
    signed,         \* the requests makeRequest has signed, in order
    sms,            \* sns.js: defaultClient and the sendSMS call under way
    calls,          \* per concurrent verifyPhone call: its locals and promise
    wire            \* the requests concurrent calls handed to fetch, in order

callVars == <<env, opts, pc, outcome, result, formattedPhone, net, lookupResp, publishResp>>
srvVars == <<cenv, srv, response, received, handled, sentTo>>
unitVars == <<fn, arg, ret>>
signVars == <<clock, signed>>
smsVars == <<sms>>
pairVars == <<calls, wire>>
vars == <<env, opts, pc, outcome, result, formattedPhone, net, lookupResp, publishResp,
          cenv, srv, response, received, handled, sentTo, fn, arg, ret, clock, signed,
          sms, calls, wire>>

\* ------------------------------------------------------------ verifyPhone

ExpiresIn == 600

Number(n) == [t |-> "number", v |-> <<n>>]
Bool(b) == [t |-> "boolean", v |-> <<b>>]

Result(success, error, details, isVoip, message, messageId, code, phoneNumber, expiresIn) ==
    [success |-> success, error |-> error, details |-> details, isVoip |-> isVoip,
     message |-> message, messageId |-> messageId, code |-> code,
     phoneNumber |-> phoneNumber, expiresIn |-> expiresIn]

NoResult ==
    Result(FALSE, Undefined, Undefined, Undefined, Undefined, Undefined, Undefined,
           Undefined, Undefined)

\* A catch block that reads a property the error does not have.
Caught_NoMessage(msg) ==
    Result(FALSE, Undefined, Str(<<"stack">>), Undefined, Undefined, Undefined, Undefined,
           Undefined, Undefined)

\* The object the catch block returns for an error with this message.
Caught(msg) ==
    Result(FALSE, Str(msg), Str(<<"stack">>), Undefined, Undefined, Undefined, Undefined,
           Undefined, Undefined)

\* The object returned when the classifier says VoIP.
PolicyRejection ==
    Result(FALSE, Str(<<"VoIP numbers are not allowed">>),
           Str(<<"This phone number appears to be a VoIP number, which is not supported for verification">>),
           Bool(TRUE), Undefined, Undefined, Undefined, Undefined, Undefined)

\* The object returned after a publish that did not raise.
Sent(messageId, code, phone) ==
    Result(TRUE, Undefined, Undefined, Undefined,
           Str(<<"Verification code sent successfully">>), messageId, code, Str(phone),
           Number(ExpiresIn))

\* The destructuring of the parameter, which runs before the try block.
\* Destructuring null raises; a default that reads process?.env?.X raises a
\* ReferenceError where no global `process` is declared.
destructureThrows(o, e) ==
    \/ o.t = "null"
    \/ /\ ~e.process
       /\ \/ o.accessKeyId.t = "undefined"
          \/ o.secretAccessKey.t = "undefined"
          \/ o.awsRegion.t = "undefined"

accessKeyIdOf(o, e) ==
    IF o.accessKeyId.t # "undefined" THEN o.accessKeyId
    ELSE IF e.envCreds THEN EnvKeyId ELSE Undefined

secretAccessKeyOf(o, e) ==
    IF o.secretAccessKey.t # "undefined" THEN o.secretAccessKey
    ELSE IF e.envCreds THEN EnvSecret ELSE Undefined

\* SNSClient's constructor: options.awsRegion || 'us-east-1'
regionOf(o, e) ==
    LET awsRegion == IF o.awsRegion.t # "undefined" THEN o.awsRegion
                     ELSE IF e.envCreds THEN Str(R_eu_west_1) ELSE Undefined
    IN IF Truthy(awsRegion) THEN awsRegion.v ELSE R_us_east_1

Request(kind, phone, message, accessKeyId, secretAccessKey, region) ==
    [kind |-> kind, PhoneNumber |-> phone, Message |-> message,
     accessKeyId |-> accessKeyId, secretAccessKey |-> secretAccessKey, region |-> region]

LookupRequest(phone) == Request("lookup", phone, <<>>, Undefined, Undefined, <<>>)

\* Lines 90-108: the checks that come before classification.  Gives the
\* message of the error raised, or <<>> when none is.
validationError(o, e) ==
    LET fmt == IF o.useLibPhoneNumber
               THEN formatPhoneNumberLibPhoneNumber(o.phoneNumber, e.libThrows)
               ELSE formatPhoneNumberJS(o.phoneNumber)
    IN
    IF ~Truthy(o.code) THEN <<"Verification code is required">>
    ELSE IF ~codeRegex(o.code.v) THEN <<"Code must be alphanumeric and at least 4 characters">>
    ELSE IF fmt.throws THEN <<"Cannot read properties of undefined (reading 'replace')">>
    ELSE IF ~isValidPhoneNumber(fmt.v, o.useLibPhoneNumber, e.libThrows)
    THEN <<"Invalid phone number format. Please use E.164 format (e.g., +1234567890)">>
    ELSE <<>>

\* Lines 102-104.
formattedPhoneOf(o, e) ==
    IF o.useLibPhoneNumber
    THEN formatPhoneNumberLibPhoneNumber(o.phoneNumber, e.libThrows).v
    ELSE formatPhoneNumberJS(o.phoneNumber).v

\* Lines 126-145 up to the fetch of makeRequest: the client, the message
\* and the signed request.  A template that is no string raises.
messageTemplateOf(o) ==
    IF o.messageTemplate.t = "undefined" THEN Str(DefaultTemplate) ELSE o.messageTemplate

PublishRequest(o, e, phone) ==
    Request("publish", phone, replaceCode(messageTemplateOf(o).v, o.code.v),
            accessKeyIdOf(o, e), secretAccessKeyOf(o, e), regionOf(o, e))

\* A classification stage that does not look at the verdict.
Classified_Ungated(o, e, phone, isVoip) ==
    IF ~IsStr(messageTemplateOf(o))
    THEN /\ pc' = "done" /\ outcome' = "resolved"
         /\ result' = Caught(<<"messageTemplate.replace is not a function">>)
         /\ net' = net
    ELSE /\ pc' = "publish" /\ outcome' = "pending" /\ result' = NoResult
         /\ net' = Append(net, PublishRequest(o, e, phone))

\* The call leaves the classification stage with the verdict isVoip.
Classified(o, e, phone, isVoip) ==
    IF isVoip
    THEN /\ pc' = "done" /\ outcome' = "resolved" /\ result' = PolicyRejection
         /\ net' = net
    ELSE IF ~IsStr(messageTemplateOf(o))
    THEN /\ pc' = "done" /\ outcome' = "resolved"
         /\ result' = Caught(<<"messageTemplate.replace is not a function">>)
         /\ net' = net
    ELSE /\ pc' = "publish" /\ outcome' = "pending" /\ result' = NoResult
         /\ net' = Append(net, PublishRequest(o, e, phone))

\* verifyPhone(o) up to its first fetch or its return.
Invoke(o, e) ==
    /\ opts' = o
    /\ env' = e
    /\ lookupResp' = NoLookup
    /\ publishResp' = NoPublish
    /\ IF destructureThrows(o, e)
       THEN /\ pc' = "done" /\ outcome' = "rejected" /\ result' = NoResult
            /\ formattedPhone' = <<>> /\ net' = net
       ELSE IF validationError(o, e) # <<>>
       THEN /\ pc' = "done" /\ outcome' = "resolved"
            /\ result' = Caught(validationError(o, e))
            /\ formattedPhone' = <<>> /\ net' = net
       ELSE /\ formattedPhone' = formattedPhoneOf(o, e)
            /\ IF o.blockVoip /\ o.voipDetectionMethod # "libphonenumber"
               THEN /\ pc' = "lookup" /\ outcome' = "pending" /\ result' = NoResult
                    /\ net' = Append(net, LookupRequest(formattedPhoneOf(o, e)))
               ELSE Classified(o, e, formattedPhoneOf(o, e),
                               /\ o.blockVoip
                               /\ isPhoneNumberVoipLibPhoneNumber(
                                      formattedPhoneOf(o, e), o.metadataType,
                                      e.libThrows, e.numberType))

\* A caller calls verifyPhone(opts).
Call ==
    /\ pc = "idle"
    /\ Invoke(opts, env)
    /\ UNCHANGED <<srvVars, unitVars, signVars, smsVars, pairVars>>

\* The lookup fetch settles and isPhoneNumberVoip returns.
LookupRespondFrom(outcomes) ==
    /\ pc = "lookup"
    /\ \E r \in outcomes :
        /\ lookupResp' = r
        /\ Classified(opts, env, formattedPhone, isPhoneNumberVoip(r))
    /\ UNCHANGED <<env, opts, formattedPhone, publishResp>>
    /\ UNCHANGED <<srvVars, unitVars, signVars, smsVars, pairVars>>

\* A publish stage that sends the request again after a network error.
PublishRespondFrom_Retry(outcomes) ==
    /\ pc = "publish"
    /\ \E r \in outcomes :
        /\ publishResp' = r
        /\ IF r.kind = "network_error"
           THEN /\ net' = Append(net, PublishRequest(opts, env, formattedPhone))
                /\ pc' = "publish" /\ outcome' = "pending" /\ result' = NoResult
           ELSE /\ net' = net
                /\ pc' = "done" /\ outcome' = "resolved"
                /\ result' = IF makeRequestResult(r).throws
                             THEN Caught(makeRequestResult(r).message)
                             ELSE Sent(makeRequestResult(r).MessageId, opts.code,
                                       formattedPhone)
    /\ UNCHANGED <<env, opts, formattedPhone, lookupResp>>
    /\ UNCHANGED <<srvVars, unitVars, signVars, smsVars, pairVars>>

\* The publish fetch settles and makeRequest returns or raises.
PublishRespondFrom(outcomes) ==
    /\ pc = "publish"
    /\ \E r \in outcomes :
        /\ publishResp' = r
        /\ result' = IF makeRequestResult(r).throws
                     THEN Caught(makeRequestResult(r).message)
                     ELSE Sent(makeRequestResult(r).MessageId, opts.code, formattedPhone)
    /\ pc' = "done"
    /\ outcome' = "resolved"
    /\ UNCHANGED <<env, opts, formattedPhone, net, lookupResp>>
    /\ UNCHANGED <<srvVars, unitVars, signVars, smsVars, pairVars>>

LookupRespond == LookupRespondFrom(LookupOutcomes)
PublishRespond == PublishRespondFrom(PublishOutcomes)

\* ----------------------------------------------------------------- server

RateLimitMax == 100

IPs == {"ip1", "ip2"}
ApiPaths == {"/api/send", "/api/verify", "/api/sms", "/api/other"}
Paths == ApiPaths \cup {"/", "/health", "/docs", "/nonexistent"}
Methods == {"GET", "POST"}

ApiKey == <<"sms_1234567890abcdef1234567890abcdef">>
WrongKey == <<"invalid-key">>

\* What a request carries as credentials: its X-API-Key and Authorization
\* headers, sequences of atoms ("Bearer " is one atom).
Headers(xApiKey, authorization) == [xApiKey |-> xApiKey, authorization |-> authorization]
HeaderSets ==
    {Headers(Undefined, Undefined),
     Headers(Str(ApiKey), Undefined),
     Headers(Str(WrongKey), Undefined),
     Headers(Undefined, Str(<<"Bearer ">> \o ApiKey)),
     Headers(Undefined, Str(<<"Bearer ">> \o WrongKey))}

\* c.req.header("Authorization")?.replace("Bearer ", "")
stripBearer(h) ==
    IF ~IsStr(h) THEN Undefined
    ELSE LET idx == {i \in 1..Len(h.v) : h.v[i] = "Bearer "} IN
         IF idx = {} THEN h
         ELSE LET first == CHOOSE i \in idx : \A j \in idx : i <= j IN
              Str(SubSeq(h.v, 1, first - 1) \o SubSeq(h.v, first + 1, Len(h.v)))

\* authenticateApiKey lets the request through.
authenticateApiKey(headers, expectedApiKey) ==
    LET apiKey == IF Truthy(headers.xApiKey) THEN headers.xApiKey
                  ELSE stripBearer(headers.authorization)
    IN ~(~Truthy(apiKey) \/ apiKey # expectedApiKey)

\* The request carries the configured API key, in the X-API-Key header or
\* as a Bearer token.
carriesValidKey(headers, expectedApiKey) ==
    /\ Truthy(expectedApiKey)
    /\ \/ headers.xApiKey = expectedApiKey
       \/ headers.authorization = Str(<<"Bearer ">> \o expectedApiKey.v)

\* The middleware and handlers of the app in the order the module
\* registers them (lines 26-48, 67, 82, 168, 275, 338, 395, 424, 427).
Handler(name, method, path) == [name |-> name, method |-> method, path |-> path]
Routes ==
    <<Handler("logger", "ALL", "*"),
      Handler("secureHeaders", "ALL", "*"),
      Handler("cors", "ALL", "*"),
      Handler("rateLimit", "ALL", "*"),
      Handler("root", "GET", "/"),
      Handler("health", "GET", "/health"),
      Handler("send", "POST", "/api/send"),
      Handler("verify", "POST", "/api/verify"),
      Handler("sms", "POST", "/api/sms"),
      Handler("docs", "GET", "/docs"),
      Handler("authenticateApiKey", "ALL", "/api/*")>>

Matches(h, method, path) ==
    /\ h.method \in {"ALL", method}
    /\ \/ h.path = "*"
       \/ h.path = path
       \/ h.path = "/api/*" /\ path \in ApiPaths

\* The app's dispatch: the matching entries run in registration order; a
\* middleware either answers or calls next(), a route handler answers.
\* Gives the entry that answers: a route handler's name, "tooMany" (the rate
\* limiter), "unauthorized" (authenticateApiKey), or "notFound".
RECURSIVE Dispatch(_, _, _, _, _, _)
Dispatch(i, method, path, headers, expectedApiKey, limited) ==
    IF i > Len(Routes) THEN "notFound"
    ELSE IF ~Matches(Routes[i], method, path)
    THEN Dispatch(i + 1, method, path, headers, expectedApiKey, limited)
    ELSE IF Routes[i].name \in {"logger", "secureHeaders", "cors"}
    THEN Dispatch(i + 1, method, path, headers, expectedApiKey, limited)
    ELSE IF Routes[i].name = "rateLimit"
    THEN IF limited THEN "tooMany"
         ELSE Dispatch(i + 1, method, path, headers, expectedApiKey, limited)
    ELSE IF Routes[i].name = "authenticateApiKey"
    THEN IF authenticateApiKey(headers, expectedApiKey)
         THEN Dispatch(i + 1, method, path, headers, expectedApiKey, limited)
         ELSE "unauthorized"
    ELSE Routes[i].name

\* createRateLimiter(): a limiter with a store of its own, which starts empty.
createRateLimiter == [ip \in IPs |-> 0]

\* limiter(c, next): count the request in the store, refuse it beyond max.
limiterRefuses(store, ip) == store[ip] + 1 > RateLimitMax

\* generateCode(): six random digits.
GeneratedCodes == {Code_123456, <<"0", "0", "7", "0", "4", "2">>}

\* The server's environment bindings c.env.
ServerEnvs ==
    {[API_KEY |-> Str(ApiKey), awsConfigured |-> TRUE],
     [API_KEY |-> Str(ApiKey), awsConfigured |-> FALSE],
     [API_KEY |-> Undefined, awsConfigured |-> TRUE]}

\* Requests: method, path, credentials and JSON body (bodies pass the
\* routes' schemas; a request without a body has the empty one).
ServerPhones == {P_20, P_13}
ServerMessages == {<<"Hello">>, <<"Use ", "{code}", " now">>}
Body(phoneNumber, code, blockVoip, message) ==
    [phoneNumber |-> phoneNumber, code |-> code, blockVoip |-> blockVoip,
     message |-> message]
NoBody == Body(<<>>, Undefined, FALSE, <<>>)
Req(method, path, headers, body) ==
    [method |-> method, path |-> path, headers |-> headers, body |-> body]

PlainRequests ==
    {Req("GET", p, h, NoBody) : p \in {"/", "/health", "/docs", "/nonexistent", "/api/send"},
                                h \in HeaderSets}
    \cup {Req("POST", "/api/other", h, NoBody) : h \in HeaderSets}
SendRequests ==
    {Req("POST", "/api/send", h, Body(p, c, b, <<>>)) :
        h \in HeaderSets, p \in ServerPhones,
        c \in {Undefined, Str(Code_123456), Str(Code_12)}, b \in BOOLEAN}
VerifyRequests ==
    {Req("POST", "/api/verify", h, Body(p, Str(Code_123456), FALSE, <<>>)) :
        h \in HeaderSets, p \in ServerPhones}
SmsRequests ==
    {Req("POST", "/api/sms", h, Body(p, Undefined, FALSE, m)) :
        h \in HeaderSets, p \in ServerPhones, m \in ServerMessages}
Requests == PlainRequests \cup SendRequests \cup VerifyRequests \cup SmsRequests

\* Requests no handler awaits anything for.
HealthRequests ==
    {Req("GET", "/health", Headers(Undefined, Undefined), NoBody),
     Req("GET", "/nonexistent", Headers(Undefined, Undefined), NoBody)}

Idle == [stage |-> "idle", route |-> "none", path |-> "none", ip |-> "none",
         validKey |-> FALSE, phoneNumber |-> <<>>, message |-> <<>>]

Response(status, route, path, validKey, phoneNumber, verified, priorSend) ==
    [status |-> status, route |-> route, path |-> path, validKey |-> validKey,
     phoneNumber |-> phoneNumber, verified |-> verified, priorSend |-> priorSend]
NoResponse == Response(0, "none", "none", FALSE, <<>>, FALSE, FALSE)

CallEnv == Env(TRUE, FALSE, FALSE, "undefined")

\* The options the send handler passes to verifyPhone (lines 193-201).
sendOptions(body, code) ==
    Options("object", Str(body.phoneNumber), code, KeyId, Secret, Str(R_us_east_1),
            body.blockVoip, "api", FALSE, "minimal", Undefined)

\* The options the general SMS handler passes (lines 360-368).
smsOptions(body) ==
    Options("object", Str(body.phoneNumber), Str(Code_GENERAL), KeyId, Secret,
            Str(R_us_east_1), FALSE, "api", FALSE, "minimal", Str(body.message))

\* A handler that answers at once.
Answer(status, route, path, validKey, phoneNumber, verified) ==
    /\ response' = Response(status, route, path, validKey, phoneNumber, verified,
                            phoneNumber \in sentTo)
    /\ srv' = Idle
    /\ UNCHANGED <<callVars, sentTo>>

Sum(f) == f["ip1"] + f["ip2"]

\* A request arrives and runs through the app until it is answered or its
\* handler awaits verifyPhone.
ServerRequestFrom(requests, cap) ==
    /\ srv.stage = "idle"
    /\ Sum(received) < cap
    /\ \E ip \in IPs, req \in requests, gen \in GeneratedCodes :
        LET limited == limiterRefuses(createRateLimiter, ip)
            target == Dispatch(1, req.method, req.path, req.headers, cenv.API_KEY, limited)
            valid == carriesValidKey(req.headers, cenv.API_KEY)
            body == req.body
            code == IF Truthy(body.code) THEN body.code ELSE Str(gen)
        IN
        \* gen is read only where the send handler generates the code
        /\ (Truthy(body.code) \/ target # "send") => gen = Code_123456
        /\ received' = [received EXCEPT ![ip] = @ + 1]
        /\ handled' = [handled EXCEPT ![ip] = IF limited THEN @ ELSE @ + 1]
        /\ cenv' = cenv
        /\ UNCHANGED <<unitVars, signVars, smsVars, pairVars>>
        /\ CASE target = "tooMany" -> Answer(429, target, req.path, valid, <<>>, FALSE)
             [] target = "unauthorized" -> Answer(401, target, req.path, valid, <<>>, FALSE)
             [] target = "notFound" -> Answer(404, target, req.path, valid, <<>>, FALSE)
             [] target \in {"root", "health", "docs"} ->
                    Answer(200, target, req.path, valid, <<>>, FALSE)
             [] target = "verify" ->
                    Answer(200, target, req.path, valid, body.phoneNumber, TRUE)
             [] target \in {"send", "sms"} /\ ~cenv.awsConfigured ->
                    Answer(500, target, req.path, valid, body.phoneNumber, FALSE)
             [] target \in {"send", "sms"} /\ cenv.awsConfigured ->
                    /\ Invoke(IF target = "send" THEN sendOptions(body, code)
                              ELSE smsOptions(body), CallEnv)
                    /\ srv' = [stage |-> "awaiting", route |-> target, path |-> req.path,
                               ip |-> ip, validKey |-> valid,
                               phoneNumber |-> body.phoneNumber,
                               message |-> body.message]
                    /\ UNCHANGED <<response, sentTo>>

ServerRequest == ServerRequestFrom(Requests, MaxRequests)

\* verifyPhone has settled and the handler that awaited it answers.
ServerRespond ==
    /\ srv.stage = "awaiting"
    /\ pc = "done"
    /\ response' = Response(IF outcome = "rejected" THEN 500
                            ELSE IF result.success THEN 200 ELSE 400,
                            srv.route, srv.path, srv.validKey, srv.phoneNumber, FALSE,
                            srv.phoneNumber \in sentTo)
    /\ sentTo' = IF outcome = "resolved" /\ result.success /\ srv.route = "send"
                 THEN sentTo \cup {srv.phoneNumber} ELSE sentTo
    /\ srv' = Idle
    /\ pc' = "none" /\ outcome' = "pending" /\ result' = NoResult
    /\ opts' = NoOptions("undefined") /\ env' = CallEnv /\ net' = <<>>
    /\ formattedPhone' = <<>> /\ lookupResp' = NoLookup /\ publishResp' = NoPublish
    /\ UNCHANGED <<cenv, received, handled, unitVars, signVars, smsVars, pairVars>>

\* The 15-minute window of the rate limiter ends.
WindowElapses ==
    /\ srv.stage = "idle"
    /\ \E ip \in IPs : received[ip] > 0
    /\ received' = [ip \in IPs |-> 0]
    /\ handled' = [ip \in IPs |-> 0]
    /\ UNCHANGED <<callVars, cenv, srv, response, sentTo, unitVars, signVars, smsVars, pairVars>>

\* Fetch outcomes the server model draws from.
ServerLookupOutcomes ==
    {LookupOutcome("network_error", FALSE, FALSE, Undefined, Undefined, FALSE, Undefined),
     LookupOutcome("json", FALSE, TRUE, Str(<<"V","e","r","i","z","o","n">>),
                   Str(<<"l","a","n","d","l","i","n","e">>), TRUE,
                   Str(<<"l","a","n","d","l","i","n","e">>)),
     LookupOutcome("json", FALSE, TRUE, Str(<<"B","a","n","d","w","i","d","t","h">>),
                   Str(<<"v","o","i","p">>), TRUE, Str(<<"l","a","n","d","l","i","n","e">>))}
ServerPublishOutcomes ==
    {[kind |-> "network_error", ok |-> FALSE, body |-> <<>>],
     [kind |-> "http", ok |-> TRUE, body |-> <<El("MessageId", <<"abc123">>)>>],
     [kind |-> "http", ok |-> FALSE,
      body |-> <<El("Code", <<"Throttled">>), El("Message", <<"rate exceeded">>)>>]}

\* ------------------------------------------------------------ direct calls

\* The functions of verify-phone.ts called on their own.  Each action is one
\* call: it records the function, its argument and what it returned.  The
\* functions keep no state, so a behaviour holds one call (and, for the
\* normalizer, a second call on what the first returned).
Applied(name, a, r) ==
    /\ fn' = name
    /\ arg' = a
    /\ ret' = r
    /\ UNCHANGED <<callVars, srvVars, signVars, smsVars, pairVars>>

\* formatPhoneNumber(s)
ApplyFormatPhoneNumber ==
    /\ fn = "none"
    /\ \E s \in PhonesAll :
        Applied("formatPhoneNumber", s, formatPhoneNumberJS(Str(s)))

\* formatPhoneNumber(x) for an x that formatPhoneNumber returned.
ApplyFormatPhoneNumberAgain ==
    /\ fn = "formatPhoneNumber"
    /\ ~ret.throws
    /\ Applied("formatPhoneNumber(formatPhoneNumber)", ret.v, formatPhoneNumberJS(Str(ret.v)))

\* isValidPhoneNumber(s), useLibPhoneNumber left at its default.
ApplyIsValidPhoneNumber ==
    /\ fn = "none"
    /\ \E s \in PhonesAll, lt \in BOOLEAN :
        Applied("isValidPhoneNumber", s, isValidPhoneNumber(s, FALSE, lt))

\* isPhoneNumberVoipLibPhoneNumber(phone, metadataType)
ApplyIsPhoneNumberVoipLibPhoneNumber ==
    /\ fn = "none"
    /\ \E s \in PhonesAll, md \in {"minimal", "full"}, lt \in BOOLEAN, nt \in NumberTypes :
        Applied("isPhoneNumberVoipLibPhoneNumber",
                [phone |-> s, metadataType |-> md, libThrows |-> lt, numberType |-> nt],
                isPhoneNumberVoipLibPhoneNumber(s, md, lt, nt))

\* isPhoneNumberVoip(phone), with the outcome its fetch has.
ApplyIsPhoneNumberVoip ==
    /\ fn = "none"
    /\ \E r \in LookupOutcomes :
        Applied("isPhoneNumberVoip", r, isPhoneNumberVoip(r))

\* Header objects a caller of sign brings: the one makeRequest builds, an
\* empty one, and objects with names in small letters and in capitals.
CallerHeaderSets ==
    {<<>>,
     <<Entry("Content-Type", <<"application/x-www-form-urlencoded; charset=utf-8">>)>>,
     <<Entry("accept", <<"*/*">>)>>,
     <<Entry("accept", <<"*/*">>), Entry("X-Custom", <<"1">>)>>}

\* client.sign('GET', url, headers, '') called on a client.
ApplySign ==
    /\ fn = "none"
    /\ \E this \in {SNSClient(KeyId, Secret, Str(R_us_east_1))}, headers \in CallerHeaderSets :
        LET url == endpointOf(this) \o <<"/", "?", "Action=GetSMSAttributes">> IN
        Applied("sign", [this |-> this, url |-> url, headers |-> headers],
                sign(this, <<"GET">>, url, headers, <<>>, clock))

\* The part of makeRequest that follows its fetch.
ApplyMakeRequest ==
    /\ fn = "none"
    /\ \E r \in PublishOutcomes :
        Applied("makeRequest", r, makeRequestResult(r))

\* ---------------------------------------------------------------- signing

\* The literal makeRequest builds its headers from.
ContentTypeOnly ==
    <<Entry("Content-Type", <<"application/x-www-form-urlencoded; charset=utf-8">>)>>

\* A headers object kept from one call to the next.
newHeaders_Reused ==
    IF signed = <<>> THEN ContentTypeOnly ELSE signed[Len(signed)].headers

\* const headers = { 'Content-Type': ... }: a new object in every call.
newHeaders == ContentTypeOnly

\* The params verifyPhone gives to makeRequest('Publish', params).
publishParams(message, phone, senderId, smsType) ==
    <<Entry("Message", message),
      Entry("PhoneNumber", phone),
      Entry("MessageAttributes.entry.1.Name", <<"AWS.SNS.SMS.SenderID">>),
      Entry("MessageAttributes.entry.1.Value.DataType", <<"String">>),
      Entry("MessageAttributes.entry.1.Value.StringValue", senderId),
      Entry("MessageAttributes.entry.2.Name", <<"AWS.SNS.SMS.SMSType">>),
      Entry("MessageAttributes.entry.2.Value.DataType", <<"String">>),
      Entry("MessageAttributes.entry.2.Value.StringValue", smsType)>>

\* Clients, messages and numbers of the signed requests.
SignClients == {SNSClient(KeyId, Secret, Str(R_us_east_1)),
                SNSClient(EnvKeyId, EnvSecret, Str(R_eu_west_1))}
SignMessages == {<<"Hi">>, <<"code", ":", " ", "1234">>}
SignPhones == {<<"+", "12069247385">>}

\* What makeRequest did for one request: the client, the request, the
\* headers object before and after sign, and what sign computed.
Signed(this, action, params, url, headersIn, payload, now, s) ==
    [this |-> this, action |-> action, params |-> params, method |-> <<"GET">>,
     url |-> url, headersIn |-> headersIn, payload |-> payload, now |-> now,
     headers |-> s.headers, canonicalRequest |-> s.canonicalRequest,
     signedHeaders |-> s.signedHeaders, signature |-> s.signature,
     authorization |-> s.authorization]

\* snsClient.makeRequest('Publish', params) up to its fetch.
MakeRequest ==
    /\ Len(signed) < MaxSigned
    /\ \E this \in SignClients, message \in SignMessages, phone \in SignPhones :
        LET params == publishParams(message, phone, <<"Verify">>, <<"Transactional">>)
            queryParams == queryParamsOf("Publish", params)
            url == endpointOf(this) \o <<"/", "?">> \o queryString(queryParams)
            payload == <<>>
            headers == newHeaders
        IN signed' = Append(signed,
                            Signed(this, "Publish", params, url, headers, payload, clock,
                                   sign(this, <<"GET">>, url, headers, payload, clock)))
    /\ UNCHANGED <<clock, callVars, srvVars, unitVars, smsVars, pairVars>>

\* A second passes.
TickSecond ==
    /\ clock.sec < MaxSec
    /\ clock' = [clock EXCEPT !.sec = @ + 1]
    /\ UNCHANGED <<signed, callVars, srvVars, unitVars, smsVars, pairVars>>

\* Midnight (UTC) passes.
TickDay ==
    /\ clock.day < MaxDay
    /\ clock' = [day |-> clock.day + 1, sec |-> 0]
    /\ UNCHANGED <<signed, callVars, srvVars, unitVars, smsVars, pairVars>>

\* -------------------------------------------------------- sendSMS (sns.js)

\* No client: null.
NoClient == [accessKeyId |-> Null, secretAccessKey |-> Null, region |-> <<>>]

\* The clients createClient makes and callers pass.
SmsClients == {SNSClient(KeyId, Secret, Str(R_us_east_1)),
               SNSClient(EnvKeyId, EnvSecret, Str(R_eu_west_1))}

\* What the caller's callback does when it is invoked: whether it raises when
\* given a message id, and when given an error.
Callbacks == {[throwsOnSuccess |-> a, throwsOnError |-> b] : a, b \in BOOLEAN}

\* One invocation of the callback: callback({err: ...}) or
\* callback(undefined, response.MessageId).
Invocation(kind, MessageId) == [kind |-> kind, MessageId |-> MessageId]

\* What the promise of sns.js's makeRequest settles to: it rejects when the
\* fetch fails or the status is no success, else it resolves to the object
\* parseXMLResponse returns, which has a MessageId when the body has one.
snsMakeRequest(r) ==
    IF r.kind = "network_error" \/ ~r.ok
    THEN [rejects |-> TRUE, MessageId |-> Undefined]
    ELSE [rejects |-> FALSE,
          MessageId |-> IF Truthy(xmlMatch(r.body, "MessageId"))
                        THEN xmlMatch(r.body, "MessageId") ELSE Undefined]

\* Outcomes of sendSMS's fetch.
SmsOutcomes ==
    {[kind |-> "network_error", ok |-> FALSE, body |-> <<>>],
     [kind |-> "http", ok |-> TRUE, body |-> <<El("MessageId", <<"abc123">>)>>],
     [kind |-> "http", ok |-> TRUE, body |-> <<El("RequestId", <<"r-1">>)>>],
     [kind |-> "http", ok |-> FALSE,
      body |-> <<El("Code", <<"Throttled">>), El("Message", <<"rate exceeded">>)>>]}

\* The module before any call: let defaultClient = null.
NoSms ==
    [pc |-> "idle", defaultClient |-> NoClient, callback |-> [throwsOnSuccess |-> FALSE,
                                                             throwsOnError |-> FALSE],
     request |-> <<>>, settled |-> NoPublish, invoked |-> <<>>, escaped |-> FALSE,
     unhandled |-> FALSE]

\* createClient(options)
CreateClient ==
    /\ sms.pc = "idle"
    /\ \E c \in SmsClients : sms' = [sms EXCEPT !.defaultClient = c]
    /\ UNCHANGED <<callVars, srvVars, unitVars, signVars, pairVars>>

\* sendSMS(textmessage, phone, senderid, SMSType, callback, client) up to its
\* return: without a client the callback is invoked with an error at once and
\* what it raises reaches the caller; else the request is started and the two
\* reactions are registered.
SendSMS ==
    /\ sms.pc = "idle"
    /\ \E textmessage \in {<<"Hi">>, <<"Bye">>}, phone \in {P_00, P_13},
          callback \in Callbacks, client \in SmsClients \cup {NoClient} :
        LET snsClient == IF client # NoClient THEN client ELSE sms.defaultClient IN
        IF snsClient = NoClient
        THEN sms' = [sms EXCEPT !.pc = "done", !.callback = callback,
                                !.invoked = <<Invocation("err", Undefined)>>,
                                !.escaped = callback.throwsOnError]
        ELSE sms' = [sms EXCEPT !.pc = "requesting", !.callback = callback,
                                !.request = <<[client |-> snsClient, Message |-> textmessage,
                                               PhoneNumber |-> phone]>>]
    /\ UNCHANGED <<callVars, srvVars, unitVars, signVars, pairVars>>

\* The promise of makeRequest settles.
MakeRequestSettles ==
    /\ sms.pc = "requesting"
    /\ \E r \in SmsOutcomes :
        sms' = [sms EXCEPT !.settled = r,
                           !.pc = IF snsMakeRequest(r).rejects THEN "catch" ELSE "then"]
    /\ UNCHANGED <<callVars, srvVars, unitVars, signVars, pairVars>>

\* .then(response => { callback(undefined, response.MessageId) }): when the
\* callback raises, the promise then() returned is rejected and the reaction
\* of catch() runs next.
ThenCallback ==
    /\ sms.pc = "then"
    /\ sms' = [sms EXCEPT
                 !.invoked = Append(@, Invocation("id", snsMakeRequest(sms.settled).MessageId)),
                 !.pc = IF sms.callback.throwsOnSuccess THEN "catch" ELSE "done"]
    /\ UNCHANGED <<callVars, srvVars, unitVars, signVars, pairVars>>

\* .catch(error => { callback({ err: error, ... }) }): what the callback
\* raises here is an unhandled rejection.
CatchCallback ==
    /\ sms.pc = "catch"
    /\ sms' = [sms EXCEPT !.invoked = Append(@, Invocation("err", Undefined)),
                          !.unhandled = sms.callback.throwsOnError,
                          !.pc = "done"]
    /\ UNCHANGED <<callVars, srvVars, unitVars, signVars, pairVars>>

\* -------------------------------------------------------- concurrent calls

\* Two verifyPhone calls under way at once, in one process.
CallIds == {"a", "b"}

\* The locals and the promise of one call.
CallState(o, at, outcomeOf, resultOf, phone, lookup, publish) ==
    [opts |-> o, pc |-> at, outcome |-> outcomeOf, result |-> resultOf,
     formattedPhone |-> phone, lookupResp |-> lookup, publishResp |-> publish]
IdleCall(o) == CallState(o, "idle", "pending", NoResult, <<>>, NoLookup, NoPublish)

\* What the callers pass: two tenants, each with its own credentials, region
\* and code.
ConcurrentInputs ==
    {Options("object", Str(p), Str(t.code), t.accessKeyId, t.secretAccessKey, Str(t.region),
             b, "api", FALSE, "minimal", Undefined) :
        p \in {P_00, P_13, P_20},
        t \in {[accessKeyId |-> KeyId, secretAccessKey |-> Secret, region |-> R_us_east_1,
                code |-> Code_1234],
               [accessKeyId |-> EnvKeyId, secretAccessKey |-> EnvSecret,
                region |-> R_eu_west_1, code |-> Code_ABC123]},
        b \in BOOLEAN}

\* A client made once and kept in the module for the calls that follow.
clientOf_Shared(c) ==
    LET sent == SelectSeq(wire, LAMBDA w : w.req.kind = "publish") IN
    IF sent = <<>>
    THEN SNSClient(accessKeyIdOf(calls[c].opts, CallEnv),
                   secretAccessKeyOf(calls[c].opts, CallEnv),
                   Str(regionOf(calls[c].opts, CallEnv)))
    ELSE [accessKeyId |-> sent[1].req.accessKeyId,
          secretAccessKey |-> sent[1].req.secretAccessKey,
          region |-> sent[1].req.region]

\* const snsClient = new SNSClient({accessKeyId, secretAccessKey, awsRegion}):
\* a client of the call's own, from its own parameter.
clientOf(c) ==
    SNSClient(accessKeyIdOf(calls[c].opts, CallEnv),
              secretAccessKeyOf(calls[c].opts, CallEnv),
              Str(regionOf(calls[c].opts, CallEnv)))

\* A step of a call: the call after it and the requests it handed to fetch.
Step(call, sends) == [call |-> call, sends |-> sends]

\* Call c leaves the classification stage with the verdict isVoip.
leaveClassification(c, call, isVoip) ==
    IF isVoip
    THEN Step([call EXCEPT !.pc = "done", !.outcome = "resolved",
                           !.result = PolicyRejection], <<>>)
    ELSE IF ~IsStr(messageTemplateOf(call.opts))
    THEN Step([call EXCEPT !.pc = "done", !.outcome = "resolved",
                  !.result = Caught(<<"messageTemplate.replace is not a function">>)], <<>>)
    ELSE Step([call EXCEPT !.pc = "publish"],
              <<Request("publish", call.formattedPhone,
                        replaceCode(messageTemplateOf(call.opts).v, call.opts.code.v),
                        clientOf(c).accessKeyId, clientOf(c).secretAccessKey,
                        clientOf(c).region)>>)

\* Call c from its start to its first fetch or its return.
start(c) ==
    LET call == calls[c]
        o == call.opts
        phone == formattedPhoneOf(o, CallEnv)
    IN
    IF destructureThrows(o, CallEnv)
    THEN Step([call EXCEPT !.pc = "done", !.outcome = "rejected"], <<>>)
    ELSE IF validationError(o, CallEnv) # <<>>
    THEN Step([call EXCEPT !.pc = "done", !.outcome = "resolved",
                           !.result = Caught(validationError(o, CallEnv))], <<>>)
    ELSE IF o.blockVoip /\ o.voipDetectionMethod # "libphonenumber"
    THEN Step([call EXCEPT !.pc = "lookup", !.formattedPhone = phone],
              <<LookupRequest(phone)>>)
    ELSE leaveClassification(c, [call EXCEPT !.formattedPhone = phone],
                             /\ o.blockVoip
                             /\ isPhoneNumberVoipLibPhoneNumber(phone, o.metadataType,
                                    CallEnv.libThrows, CallEnv.numberType))

\* The step s of call c takes place.
Took(c, s) ==
    /\ calls' = [calls EXCEPT ![c] = s.call]
    /\ wire' = wire \o [i \in 1..Len(s.sends) |-> [call |-> c, req |-> s.sends[i]]]
    /\ UNCHANGED <<callVars, srvVars, unitVars, signVars, smsVars>>

\* A caller calls verifyPhone while another call may be under way.
ConcurrentCall ==
    \E c \in CallIds :
        /\ calls[c].pc = "idle"
        /\ Took(c, start(c))

\* The lookup fetch of one of the calls settles.
ConcurrentLookupRespond ==
    \E c \in CallIds, r \in ServerLookupOutcomes :
        /\ calls[c].pc = "lookup"
        /\ Took(c, leaveClassification(c, [calls[c] EXCEPT !.lookupResp = r],
                                       isPhoneNumberVoip(r)))

\* The publish fetch of one of the calls settles.
ConcurrentPublishRespond ==
    \E c \in CallIds, r \in ServerPublishOutcomes :
        /\ calls[c].pc = "publish"
        /\ Took(c, Step([calls[c] EXCEPT
                            !.publishResp = r, !.pc = "done", !.outcome = "resolved",
                            !.result = IF makeRequestResult(r).throws
                                       THEN Caught(makeRequestResult(r).message)
                                       ELSE Sent(makeRequestResult(r).MessageId,
                                                 calls[c].opts.code,
                                                 calls[c].formattedPhone)],
                        <<>>))

\* ---------------------------------------------------------- specifications

ServerIdle ==
    /\ cenv \in ServerEnvs
    /\ srv = Idle
    /\ response = NoResponse
    /\ received = [ip \in IPs |-> 0]
    /\ handled = [ip \in IPs |-> 0]
    /\ sentTo = {}

\* No function called directly, nothing signed.
UnitIdle ==
    /\ fn = "none"
    /\ arg = <<>>
    /\ ret = <<>>
    /\ clock = [day |-> 0, sec |-> 0]
    /\ signed = <<>>

\* No sendSMS call, no client created.
SmsIdle == sms = NoSms

\* No concurrent calls.
PairIdle ==
    /\ calls = [c \in CallIds |-> IdleCall(NoOptions("undefined"))]
    /\ wire = <<>>

CallIdle ==
    /\ outcome = "pending"
    /\ result = NoResult
    /\ formattedPhone = <<>>
    /\ net = <<>>
    /\ lookupResp = NoLookup
    /\ publishResp = NoPublish

\* verifyPhone called directly, once, with any of the inputs.
Init ==
    /\ pc = "idle"
    /\ CallIdle
    /\ ServerIdle
    /\ UnitIdle
    /\ SmsIdle
    /\ PairIdle
    /\ cenv.awsConfigured /\ Truthy(cenv.API_KEY)
    /\ \/ /\ opts \in PlainInputs \cup LookupInputs
          /\ \E lt \in BOOLEAN :
                /\ opts.useLibPhoneNumber \/ ~lt
                /\ env = Env(TRUE, TRUE, lt, "undefined")
       \/ /\ opts \in HeuristicInputs
          /\ \E lt \in BOOLEAN, nt \in NumberTypes :
                /\ opts.metadataType = "full" \/ nt = "undefined"
                /\ env = Env(TRUE, TRUE, lt, nt)
       \/ /\ opts \in CodeInputs
          /\ env = Env(TRUE, TRUE, FALSE, "undefined")
       \/ /\ opts \in CredentialInputs \cup NoOptionsInputs
          /\ \E pr \in BOOLEAN, ec \in BOOLEAN :
                /\ pr \/ ~ec
                /\ env = Env(pr, ec, FALSE, "undefined")

Next ==
    \/ Call
    \/ LookupRespond
    \/ PublishRespond

Spec == Init /\ [][Next]_vars

\* The server, answering requests one at a time.
ServerInit ==
    /\ pc = "none"
    /\ opts = NoOptions("undefined")
    /\ env = CallEnv
    /\ CallIdle
    /\ ServerIdle
    /\ UnitIdle
    /\ SmsIdle
    /\ PairIdle

ServerNext ==
    \/ ServerRequest
    \/ LookupRespondFrom(ServerLookupOutcomes)
    \/ PublishRespondFrom(ServerPublishOutcomes)
    \/ ServerRespond
    \/ WindowElapses

ServerSpec == ServerInit /\ [][ServerNext]_vars

\* The rate limiter alone: requests that are answered at once, up to past
\* the limit of one window.
RateNext ==
    \/ ServerRequestFrom(HealthRequests, MaxWindowRequests)
    \/ WindowElapses

RateSpec == ServerInit /\ [][RateNext]_vars

\* The functions called directly.
UnitNext ==
    \/ ApplyFormatPhoneNumber
    \/ ApplyFormatPhoneNumberAgain
    \/ ApplyIsValidPhoneNumber
    \/ ApplyIsPhoneNumberVoipLibPhoneNumber
    \/ ApplyIsPhoneNumberVoip
    \/ ApplyMakeRequest
    \/ ApplySign

UnitInit ==
    /\ ServerInit
    /\ cenv.awsConfigured /\ Truthy(cenv.API_KEY)

UnitSpec == UnitInit /\ [][UnitNext]_vars

\* A client signing requests as time passes.
SignNext ==
    \/ MakeRequest
    \/ TickSecond
    \/ TickDay

SignSpec == UnitInit /\ [][SignNext]_vars

\* sns.js: clients are created and one message is sent.
SmsNext ==
    \/ CreateClient
    \/ SendSMS
    \/ MakeRequestSettles
    \/ ThenCallback
    \/ CatchCallback

SmsSpec == UnitInit /\ [][SmsNext]_vars

\* Two verifyPhone calls in one process, their steps in any order.
ConcurrentInit ==
    /\ pc = "none"
    /\ opts = NoOptions("undefined")
    /\ env = CallEnv
    /\ CallIdle
    /\ ServerIdle
    /\ UnitIdle
    /\ SmsIdle
    /\ cenv.awsConfigured /\ Truthy(cenv.API_KEY)
    /\ calls \in [CallIds -> {IdleCall(o) : o \in ConcurrentInputs}]
    /\ wire = <<>>

ConcurrentNext ==
    \/ ConcurrentCall
    \/ ConcurrentLookupRespond
    \/ ConcurrentPublishRespond

ConcurrentSpec == ConcurrentInit /\ [][ConcurrentNext]_vars

\* ------------------------------------------------------------------ claims

\* The call got into the try block and past the checks of code and phone.
passedValidation ==
    /\ pc # "idle"
    /\ ~destructureThrows(opts, env)
    /\ validationError(opts, env) = <<>>

\* The classifier the options select has run and said VoIP.
classifierSaidVoip ==
    /\ passedValidation
    /\ opts.blockVoip
    /\ IF opts.voipDetectionMethod = "libphonenumber"
       THEN isPhoneNumberVoipLibPhoneNumber(formattedPhone, opts.metadataType,
                                            env.libThrows, env.numberType)
       ELSE lookupResp.kind # "none" /\ isPhoneNumberVoip(lookupResp)

publishRequests == SelectSeq(net, LAMBDA r : r.kind = "publish")
lookupRequests == SelectSeq(net, LAMBDA r : r.kind = "lookup")

\* ^\+[1-9]\d{1,14}$ and 7 to 16 characters, written out.
E164(s) ==
    /\ Len(s) \in 7..16
    /\ s[1] = "+"
    /\ s[2] \in {"1", "2", "3", "4", "5", "6", "7", "8", "9"}
    /\ \A i \in 3..Len(s) : s[i] \in {"0", "1", "2", "3", "4", "5", "6", "7", "8", "9"}

\* A string value with at least one character.
NonEmptyString(x) == x.t = "string" /\ \E i \in 1..Len(x.v) : x.v[i] # ""

\* C1: with blockVoip, once the selected classifier has said VoIP the call has
\* returned {success: false, isVoip: true} and no publish request was made.
C1_VoipShortCircuits ==
    classifierSaidVoip =>
        /\ pc = "done"
        /\ outcome = "resolved"
        /\ ~result.success
        /\ result.isVoip = Bool(TRUE)
        /\ publishRequests = <<>>

\* The end-to-end case of the spec: phone "5551234567", blockVoip, the lookup
\* says VoIP.
C1_Witness ==
    /\ classifierSaidVoip
    /\ opts.phoneNumber = Str(P_19)
    /\ opts.voipDetectionMethod = "api"
    /\ result = PolicyRejection

\* C2: a call whose code is missing or does not match ^[a-zA-Z0-9]{4,}$ returns
\* a failure result and makes no network request.
C2_BadCodeFailsWithoutNetwork ==
    (pc # "idle" /\ (~Truthy(opts.code) \/ ~codeRegex(opts.code.v))) =>
        /\ pc = "done"
        /\ outcome = "resolved"
        /\ ~result.success
        /\ net = <<>>

\* C3: under both strategies every publish request carries a PhoneNumber that
\* is E.164, and a call whose normalized number fails validation returns a
\* failure with no lookup, no verdict and no publish.
C3_OnlyValidNumbersDispatched ==
    /\ \A i \in 1..Len(net) : net[i].kind = "publish" => E164(net[i].PhoneNumber)
    /\ ( /\ pc # "idle"
         /\ ~destructureThrows(opts, env)
         /\ Truthy(opts.code) /\ codeRegex(opts.code.v)
         /\ IsStr(opts.phoneNumber)
         /\ ~isValidPhoneNumber(formattedPhoneOf(opts, env), opts.useLibPhoneNumber,
                                env.libThrows) )
       => /\ pc = "done"
          /\ outcome = "resolved"
          /\ ~result.success
          /\ result.isVoip = Undefined
          /\ net = <<>>

\* A publish under the libphonenumber strategy for a number that was not
\* given in E.164.
C3_Witness ==
    /\ opts.useLibPhoneNumber
    /\ opts.phoneNumber = Str(P_02)
    /\ Len(publishRequests) = 1
    /\ publishRequests[1].PhoneNumber = P_00

\* C4: the promise verifyPhone returns never rejects.
C4_NeverRejects == outcome # "rejected"

\* C5: every failure result has a non-empty error string, and a result has
\* isVoip: true exactly when it is the rejection of a number the classifier
\* called VoIP.
C5_FailureShape ==
    outcome = "resolved" =>
        /\ ~result.success => NonEmptyString(result.error)
        /\ result.isVoip = Bool(TRUE) <=> (~result.success /\ classifierSaidVoip)
        /\ result.isVoip \in {Bool(TRUE), Undefined}

\* A failure that is no policy rejection: the provider answered with an error
\* document after the lookup let the number through.
C5_Witness ==
    /\ outcome = "resolved"
    /\ ~result.success
    /\ opts.blockVoip
    /\ lookupResp.kind = "json"
    /\ publishResp.kind = "http" /\ publishResp.ok
    /\ parseXMLResponse(publishResp.body).throws
    /\ result.isVoip = Undefined

\* C6: every success result has a message id taken from the response, the
\* code supplied, the number dispatched and expiresIn 600.
C6_SuccessShape ==
    (outcome = "resolved" /\ result.success) =>
        /\ result.messageId.t = "string"
        /\ result.messageId = xmlMatch(publishResp.body, "MessageId")
        /\ result.code = opts.code
        /\ result.phoneNumber = Str(formattedPhone)
        /\ Len(publishRequests) = 1
        /\ publishRequests[1].PhoneNumber = formattedPhone
        /\ result.expiresIn = Number(600)

\* C7: a request under /api/ without the valid key is answered 401 and no
\* handler awaits verifyPhone for it.
C7_ApiNeedsKey ==
    /\ (response.path \in ApiPaths /\ ~response.validKey) => response.status = 401
    /\ (srv.stage = "awaiting" /\ srv.path \in ApiPaths) => srv.validKey

\* C8: in one window the rate limiter passes at most 100 requests of an IP.
C8_AtMostMaxPerWindow == \A ip \in IPs : handled[ip] <= RateLimitMax

\* C9: verifying a code for a number no code was sent to answers 400 and does
\* not report the code as verified.
C9_VerifyNeedsSend ==
    (response.route = "verify" /\ response.validKey /\ ~response.priorSend) =>
        /\ response.status = 400
        /\ ~response.verified

\* A lookup that failed, or whose answer is malformed or lacks a field.
lookupFailed(r) ==
    \/ r.kind \in {"network_error", "http_error", "bad_json"}
    \/ /\ r.kind = "json"
       /\ \/ r.isNull
          \/ ~r.carrier
          \/ r.name.t # "string"
          \/ r.type.t # "string"
          \/ ~r.portability
          \/ r.line_type.t # "string"

\* C10: after a lookup that failed or lacks a field the classifier has said
\* "not VoIP" and the call has gone on to the publish request.
C10_LookupFailsOpen ==
    lookupFailed(lookupResp) =>
        /\ ~isPhoneNumberVoip(lookupResp)
        /\ result.isVoip = Undefined
        /\ Len(publishRequests) = 1

\* What the call applied to, for the calls of the heuristic classifier.
parsedArg == parsePhoneNumber(Str(arg.phone), arg.libThrows)
heuristicApplied ==
    /\ fn = "isPhoneNumberVoipLibPhoneNumber"
    /\ parsedArg.status = "ok"
    /\ parsedArg.valid

\* The reference normalizer of the specification.
NormalizeReference(s) ==
    LET digits == SelectSeq(s, LAMBDA c : c \in {"0", "1", "2", "3", "4", "5", "6", "7", "8", "9"})
    IN
    IF Len(digits) = 10 THEN <<"+", "1">> \o digits
    ELSE IF Len(digits) = 11 /\ digits[1] = "1" THEN <<"+">> \o digits
    ELSE IF Len(s) > 0 /\ s[1] = "+" THEN s
    ELSE <<"+">> \o digits

C12_E164Unchanged ==
    (fn = "formatPhoneNumber" /\ E164(arg)) => ret.v = arg

\* C13: normalizing a normalized number gives the same number.
C13_Idempotent ==
    fn = "formatPhoneNumber(formatPhoneNumber)" => ret.v = arg

\* The normalizer applied to what it made of "5551234567".
C13_Witness ==
    /\ fn = "formatPhoneNumber(formatPhoneNumber)"
    /\ arg = <<"+", "1">> \o P_19
    /\ ret.v = arg

\* C14: basic validation answers true exactly for the strings that match
\* ^\+[1-9]\d{1,14}$ and have 7 to 16 characters, and false for all others.
C14_BasicValidation ==
    fn = "isValidPhoneNumber" =>
        /\ ret \in BOOLEAN
        /\ ret = E164(arg)

\* A 0 right after the "+" is answered false.
C14_Witness ==
    /\ fn = "isValidPhoneNumber"
    /\ arg = <<"+", "0">> \o Rep("5", 10)
    /\ ret = FALSE

\* The reserved prefixes: toll-free, premium-rate and personal-communication
\* codes.
ReservedPrefixes ==
    {<<"8", b, b>> : b \in {"0", "3", "4", "5", "6", "7", "8"}}
    \cup {<<"9", "0", "0">>, <<"9", "7", "6">>, <<"7", "0", "0">>, <<"5", "0", "0">>}
    \cup {<<"5", "2", c>> : c \in {"1", "2", "3", "4", "5", "6", "7", "8", "9"}}
    \cup {<<"6", "0", c>> : c \in {"0", "1", "2", "3", "4", "5", "6", "7", "8", "9"}}

hasReservedPrefix(n) == Len(n) >= 3 /\ <<n[1], n[2], n[3]>> \in ReservedPrefixes

\* C15 as stated: every valid number whose national number begins with a
\* reserved prefix is classified VoIP.
C15_ReservedPrefixIsVoip ==
    (heuristicApplied /\ hasReservedPrefix(parsedArg.national)) => ret = TRUE

\* C15 as amended: every valid US number whose national number begins with a
\* reserved prefix is classified VoIP, whatever the later rules would say.
C15_ReservedUSPrefixIsVoip ==
    (heuristicApplied /\ parsedArg.country = "US" /\ hasReservedPrefix(parsedArg.national))
        => ret = TRUE

\* A premium-rate number that the type rule would call not VoIP and no
\* pattern rule matches.
C15_Witness ==
    /\ heuristicApplied
    /\ arg.phone = P_24
    /\ arg.metadataType = "full"
    /\ arg.numberType = "MOBILE"
    /\ ret = TRUE

\* The rules of the cascade that apply without extended metadata, as the
\* specification words them.
someRuleMatches(p) ==
    LET n == p.national IN
    \/ hasReservedPrefix(n)
    \/ p.nonGeographic
    \/ \E i \in 1..(Len(n) - 2) : n[i] = n[i + 1] /\ n[i + 1] = n[i + 2]
    \/ \E i \in 1..(Len(n) - 2) :
            /\ DigitVal(n[i + 1]) = DigitVal(n[i]) + 1
            /\ DigitVal(n[i + 2]) = DigitVal(n[i + 1]) + 1
    \/ \E c \in Digit : Len(n) >= 4 /\ SubSeq(n, Len(n) - 3, Len(n)) = <<c, c, c, c>>
    \/ Len(n) >= 7 /\ Cardinality({n[i] : i \in 1..Len(n)}) <= 3

N_2065551234 == <<"2", "0", "6", "5", "5", "5", "1", "2", "3", "4">>

\* C16 as stated: without extended metadata a number that no rule matches,
\* and the number 2065551234, are classified not VoIP.
C16_NoRuleNotVoip ==
    (heuristicApplied /\ arg.metadataType = "minimal") =>
        /\ ~someRuleMatches(parsedArg) => ret = FALSE
        /\ parsedArg.national = N_2065551234 => ret = FALSE

\* C16 as amended: without extended metadata a number that no rule matches
\* is classified not VoIP; 2065551234 holds the run 555 and is classified
\* VoIP.
C16_NoRuleNotVoipAmended ==
    (heuristicApplied /\ arg.metadataType = "minimal") =>
        /\ ~someRuleMatches(parsedArg) => ret = FALSE
        /\ parsedArg.national = N_2065551234 => ret = TRUE

\* A number that no rule matches: national number 2069247385.
C16_Witness ==
    /\ heuristicApplied
    /\ arg.metadataType = "minimal"
    /\ arg.phone = P_00
    /\ ~someRuleMatches(parsedArg)
    /\ ret = FALSE

\* The lookup results of the test: an ordinary mobile line, a Bandwidth /
\* voip carrier.
mobileLine(r) ==
    /\ r.kind = "json" /\ ~r.isNull /\ r.carrier /\ r.portability
    /\ r.name = Str(<<"V","e","r","i","z","o","n">>)
    /\ r.type = Str(<<"m","o","b","i","l","e">>)
    /\ r.line_type = Str(<<"m","o","b","i","l","e">>)
voipCarrier(r) ==
    /\ r.kind = "json" /\ ~r.isNull /\ r.carrier /\ r.portability
    /\ r.name = Str(<<"B","a","n","d","w","i","d","t","h">>)
    /\ r.type = Str(<<"v","o","i","p">>)
    /\ r.line_type = Str(<<"l","a","n","d","l","i","n","e">>)

\* C17: the lookup classifier answers false for an ordinary mobile line, true
\* for a Bandwidth / voip carrier and false for a null result.
C17_LookupVerdicts ==
    fn = "isPhoneNumberVoip" =>
        /\ mobileLine(arg) => ret = FALSE
        /\ voipCarrier(arg) => ret = TRUE
        /\ (arg.kind = "json" /\ arg.isNull) => ret = FALSE

\* Two signings that had the same arguments, credentials, region and
\* timestamp; two requests that were the same for the same client at the
\* same time.
sameSignInputs(a, b) ==
    /\ a.this = b.this
    /\ a.method = b.method /\ a.url = b.url /\ a.payload = b.payload
    /\ a.headersIn = b.headersIn
    /\ amzDateOf(a.now) = amzDateOf(b.now)
sameRequest(a, b) ==
    /\ a.this = b.this
    /\ a.action = b.action /\ a.params = b.params
    /\ a.now = b.now

\* C18: signings with the same method, URL, headers, payload, credentials,
\* region and timestamp give the same Authorization header, and so do two
\* equal requests whatever was signed before them: every request is signed
\* over the headers makeRequest sets and the three sign adds.
C18_SignIsPure ==
    \A i, j \in 1..Len(signed) :
        /\ sameSignInputs(signed[i], signed[j]) =>
               signed[i].authorization = signed[j].authorization
        /\ sameRequest(signed[i], signed[j]) =>
               /\ signed[i].authorization = signed[j].authorization
               /\ signed[i].signedHeaders = signed[j].signedHeaders

\* The same request signed twice in one second, with another request signed
\* in between.
C18_Witness ==
    /\ Len(signed) = 3
    /\ sameRequest(signed[1], signed[3])
    /\ ~sameRequest(signed[1], signed[2])
    /\ signed[1].authorization = signed[3].authorization
    /\ signed[1].authorization # signed[2].authorization

\* The provider's signing procedure (Signature Version 4), applied to the
\* request as it is received: the query parameters sorted by name and
\* URI-encoded (a space is %20; letters, digits, "-", ".", "_", "~" stay), the
\* signed headers by lower-cased name, each line ended by a newline.
uriEncode(s) ==
    [i \in 1..Len(s) |->
        IF s[i] \in Alnum \cup Chunks \cup {"-", ".", "_", "~"} THEN s[i]
        ELSE PercentCode(s[i])]
ReferenceCanonicalQuery(queryParams) ==
    LET sorted == SortSeq(queryParams, CodeUnitLess) IN
    join([i \in 1..Len(sorted) |-> <<sorted[i].key, "=">> \o uriEncode(sorted[i].value)],
         <<"&">>)
ReferenceSignedHeaders(r) ==
    SortSeq(SelectSeq(r.headers, LAMBDA h : h.key # "authorization"),
            LAMBDA a, b : CodeUnitRank(lowerName(a.key)) < CodeUnitRank(lowerName(b.key)))
ReferenceCanonicalRequest(r) ==
    LET hs == ReferenceSignedHeaders(r) IN
    r.method \o <<"\n", "/", "\n">>
        \o ReferenceCanonicalQuery(queryParamsOf(r.action, r.params)) \o <<"\n">>
        \o join([i \in 1..Len(hs) |-> <<lowerName(hs[i].key), ":">> \o hs[i].value \o <<"\n">>],
                <<>>)
        \o <<"\n">>
        \o join([i \in 1..Len(hs) |-> <<lowerName(hs[i].key)>>], <<";">>) \o <<"\n">>
        \o sha256hex(r.payload)
ReferenceSignature(r) ==
    LET date == dateStampOf(r.now)
        scope == date \o <<"/">> \o r.this.region \o <<"/sns/aws4_request">>
        stringToSign == <<"AWS4-HMAC-SHA256", "\n">> \o amzDateOf(r.now) \o <<"\n">> \o scope
                            \o <<"\n">> \o sha256hex(ReferenceCanonicalRequest(r))
        key == hmac(hmac(hmac(hmac(<<"AWS4">> \o templateText(r.this.secretAccessKey), date),
                              r.this.region), <<"sns">>), <<"aws4_request">>)
    IN arrayBufferToHex(hmac(key, stringToSign))

\* C19: for every request makeRequest builds, the canonical request and the
\* signature sign computes are those of the provider's procedure.
C19_SignatureIsReference ==
    \A i \in 1..Len(signed) :
        /\ signed[i].canonicalRequest = ReferenceCanonicalRequest(signed[i])
        /\ signed[i].signature = ReferenceSignature(signed[i])

\* The elements of a body that have a value.
valuesOf(body, tag) ==
    SelectSeq(body, LAMBDA el : el.tag = tag /\ Len(el.text) > 0)
errorDocument(body) ==
    Len(valuesOf(body, "Code")) > 0 /\ Len(valuesOf(body, "Message")) > 0

\* C20: a non-success status raises; else a body with a Code and a Message
\* raises an error that carries both, also when it has a MessageId; else a
\* body with a MessageId gives that id; else the body is returned as raw.
C20_ResponseExtraction ==
    (fn = "makeRequest" /\ arg.kind = "http") =>
        /\ ~arg.ok => ret.throws
        /\ (arg.ok /\ errorDocument(arg.body)) =>
                /\ ret.throws
                /\ includes(ret.message, valuesOf(arg.body, "Code")[1].text)
                /\ includes(ret.message, valuesOf(arg.body, "Message")[1].text)
        /\ (arg.ok /\ ~errorDocument(arg.body) /\ Len(valuesOf(arg.body, "MessageId")) > 0) =>
                /\ ~ret.throws
                /\ ret.MessageId = Str(valuesOf(arg.body, "MessageId")[1].text)
        /\ (arg.ok /\ ~errorDocument(arg.body) /\ Len(valuesOf(arg.body, "MessageId")) = 0) =>
                /\ ~ret.throws
                /\ ret.MessageId = Undefined
                /\ ret.raw = Str(arg.body)

\* An error document that also holds a message id.
C20_Witness ==
    /\ fn = "makeRequest"
    /\ arg.kind = "http" /\ arg.ok
    /\ errorDocument(arg.body)
    /\ Len(valuesOf(arg.body, "MessageId")) > 0
    /\ ret.throws

\* C21: a verifyPhone call hands fetch at most one lookup request, only with
\* blockVoip and the api strategy, and then at most one publish request; the
\* publish request is made only after the lookup has settled, and nothing is
\* sent again after a failure.
C21_OneLookupThenOnePublish ==
    /\ Len(lookupRequests) <= 1
    /\ Len(publishRequests) <= 1
    /\ Len(net) = Len(lookupRequests) + Len(publishRequests)
    /\ lookupRequests # <<>> =>
          /\ opts.blockVoip
          /\ opts.voipDetectionMethod = "api"
          /\ net[1].kind = "lookup"
    /\ (lookupRequests # <<>> /\ publishRequests # <<>>) =>
          /\ net[2].kind = "publish"
          /\ lookupResp.kind # "none"
          /\ ~isPhoneNumberVoip(lookupResp)
    /\ (pc = "lookup") => (lookupResp.kind = "none" /\ publishRequests = <<>>)
    /\ (pc = "done" /\ publishResp.kind # "none") => Len(publishRequests) = 1

\* A call whose lookup failed and whose publish failed too has ended with one
\* request of each kind.
C21_Witness ==
    /\ pc = "done"
    /\ Len(lookupRequests) = 1
    /\ lookupResp.kind = "network_error"
    /\ Len(publishRequests) = 1
    /\ publishResp.kind = "network_error"
    /\ ~result.success

\* The call runs without an access key id or without a secret key.
credentialsMissing ==
    \/ ~Truthy(accessKeyIdOf(opts, env))
    \/ ~Truthy(secretAccessKeyOf(opts, env))

\* C23: a call that has neither an option nor an environment variable for the
\* access key id or for the secret key makes no publish request and ends with
\* a failure result, never success: true.
C23_NoCredentialsNoPublish ==
    (pc # "idle" /\ ~destructureThrows(opts, env) /\ credentialsMissing) =>
        /\ publishRequests = <<>>
        /\ pc = "done" => (outcome = "resolved" /\ ~result.success)

\* A lookup response with carrier name, carrier type and portability line
\* type all present (as strings).
wellFormedLookup(r) ==
    /\ r.kind = "json" /\ ~r.isNull /\ r.carrier /\ r.portability
    /\ IsStr(r.name) /\ IsStr(r.type) /\ IsStr(r.line_type)

\* The text has the word at some position, letter case aside.
containsWord(s, w) ==
    \E i \in 1..Len(s) :
        /\ i + Len(w) - 1 <= Len(s)
        /\ \A j \in 1..Len(w) : LowerChar(s[i + j - 1]) = w[j]

\* The two texts are the same, letter case aside.
sameWord(s, w) ==
    /\ Len(s) = Len(w)
    /\ \A j \in 1..Len(w) : LowerChar(s[j]) = w[j]

ascendingRun3(n) ==
    \E i \in 1..(Len(n) - 2) :
        /\ n[i] \in Digit /\ n[i + 1] \in Digit /\ n[i + 2] \in Digit
        /\ DigitVal(n[i + 1]) = DigitVal(n[i]) + 1
        /\ DigitVal(n[i + 2]) = DigitVal(n[i + 1]) + 1

\* One of the rules before the ascending-run rule decides the call: the
\* reserved prefixes, the non-geographic numbers, the type oracle, the
\* repeated digits.
earlierRuleDecides ==
    \/ parsedArg.country = "US" /\ substring3(parsedArg.national) \in voipAreaCodes
    \/ parsedArg.nonGeographic
    \/ /\ arg.metadataType = "full"
       /\ arg.numberType \in {"VOIP", "PREMIUM_RATE", "TOLL_FREE", "SHARED_COST",
                              "MOBILE", "FIXED_LINE"}
    \/ hasRepeatedDigits(parsedArg.national)

\* C25: when no earlier rule has decided, a national number that holds a run
\* of three or more ascending consecutive digits is classified VoIP.
C25_AscendingRunIsVoip ==
    (heuristicApplied /\ ~earlierRuleDecides /\ ascendingRun3(parsedArg.national)) =>
        ret = TRUE

\* Rule 1 or rule 2 matches the number of the call.
rule1or2 ==
    \/ parsedArg.country = "US" /\ substring3(parsedArg.national) \in voipAreaCodes
    \/ parsedArg.nonGeographic

\* C26: rules 1 and 2 come before the type oracle; with full metadata and
\* neither of them matching, the types VOIP, PREMIUM_RATE, TOLL_FREE and
\* SHARED_COST give true, MOBILE and FIXED_LINE give false whatever the
\* digits are, and any other answer or a failing lookup leaves the verdict to
\* the pattern rules; with minimal metadata the type plays no part.
C26_TypeOracle ==
    heuristicApplied =>
        /\ rule1or2 => ret = TRUE
        /\ (~rule1or2 /\ arg.metadataType = "full") =>
              IF arg.numberType \in {"VOIP", "PREMIUM_RATE", "TOLL_FREE", "SHARED_COST"}
              THEN ret = TRUE
              ELSE IF arg.numberType \in {"MOBILE", "FIXED_LINE"}
              THEN ret = FALSE
              ELSE ret = patternRules(parsedArg.national)
        /\ (~rule1or2 /\ arg.metadataType = "minimal") =>
              ret = patternRules(parsedArg.national)

\* A mobile number that a pattern rule matches is not VoIP with full
\* metadata.
C26_Witness ==
    /\ heuristicApplied
    /\ ~rule1or2
    /\ arg.metadataType = "full"
    /\ arg.numberType = "MOBILE"
    /\ patternRules(parsedArg.national)
    /\ ret = FALSE

\* The call classifies with the heuristic classifier.
heuristicSelected ==
    /\ passedValidation
    /\ opts.blockVoip
    /\ opts.voipDetectionMethod = "libphonenumber"

\* What the library makes of the number the call classifies.
parsedFormatted == parsePhoneNumber(Str(formattedPhone), env.libThrows)

\* C27: a call that classifies with the heuristic classifier makes no lookup
\* request and is not rejected by it; when the library cannot parse the
\* number, raises, or finds it invalid, the verdict is not VoIP and the call
\* goes on to publish.
C27_HeuristicIsLocal ==
    heuristicSelected =>
        /\ lookupRequests = <<>>
        /\ lookupResp.kind = "none"
        /\ outcome # "rejected"
        /\ (parsedFormatted.status # "ok" \/ ~parsedFormatted.valid) =>
              /\ result # PolicyRejection
              /\ Len(publishRequests) = 1

\* A number that passes the basic check and makes the library raise: the call
\* has sent its code.
C27_Witness ==
    /\ heuristicSelected
    /\ parsedFormatted.status = "throws"
    /\ pc = "done"
    /\ result.success
    /\ net = publishRequests

\* C30: while the general SMS handler awaits verifyPhone, the Message of the
\* publish request is the message field of the request body, for every
\* message.
C30_SmsMessageVerbatim ==
    (srv.stage = "awaiting" /\ srv.route = "sms") =>
        \A i \in 1..Len(publishRequests) : publishRequests[i].Message = srv.message

\* The headers a direct call of sign signed, and the same headers in the
\* order of their lower-cased names.
signedEntries == SelectSeq(ret.headers, LAMBDA h : h.key # "authorization")
byLowerName ==
    SortSeq(signedEntries,
            LAMBDA a, b : CodeUnitRank(lowerName(a.key)) < CodeUnitRank(lowerName(b.key)))

\* C28: whatever headers sign is given, the canonical header lines and the
\* SignedHeaders list hold the lower-cased names of the same headers in the
\* order of the lower-cased names, host, x-amz-date and x-amz-content-sha256
\* among them.
C28_HeadersInLowerCaseOrder ==
    fn = "sign" =>
        /\ ret.signedHeaders =
               join([i \in 1..Len(byLowerName) |-> <<lowerName(byLowerName[i].key)>>], <<";">>)
        /\ ret.sortedHeaders =
               join([i \in 1..Len(byLowerName) |->
                        <<lowerName(byLowerName[i].key), ":">> \o byLowerName[i].value],
                    <<"\n">>)
        /\ {"host", "x-amz-date", "x-amz-content-sha256"}
               \subseteq {signedEntries[i].key : i \in 1..Len(signedEntries)}

\* C29: sendSMS invokes its callback once per call, with an error or with the
\* message id: never twice, and once it has ended exactly once, whatever the
\* callback does.
C29_CallbackOnce ==
    /\ Len(sms.invoked) <= 1
    /\ sms.pc = "done" => Len(sms.invoked) = 1

\* The request is the one call w.call makes from its own options alone.
ownRequest(w) ==
    LET o == calls[w.call].opts IN
    IF w.req.kind = "lookup"
    THEN w.req = LookupRequest(formattedPhoneOf(o, CallEnv))
    ELSE w.req = Request("publish", formattedPhoneOf(o, CallEnv),
                         replaceCode(DefaultTemplate, o.code.v),
                         o.accessKeyId, o.secretAccessKey, o.awsRegion.v)

\* What a call with these options resolves to, given the outcomes of its own
\* lookup and publish requests.
ownResult(o, lookup, publish) ==
    IF validationError(o, CallEnv) # <<>> THEN Caught(validationError(o, CallEnv))
    ELSE IF o.blockVoip /\ isPhoneNumberVoip(lookup) THEN PolicyRejection
    ELSE IF makeRequestResult(publish).throws
    THEN Caught(makeRequestResult(publish).message)
    ELSE Sent(makeRequestResult(publish).MessageId, o.code, formattedPhoneOf(o, CallEnv))

\* C22: however the steps of two calls interleave, every request on the wire
\* carries the credentials, region, phone number and message of the call that
\* made it, and a call that has ended resolved to what its own options and
\* the responses to its own requests give.
C22_CallsShareNothing ==
    /\ \A i \in 1..Len(wire) : ownRequest(wire[i])
    /\ \A c \in CallIds :
          calls[c].pc = "done" =>
              /\ calls[c].outcome = "resolved"
              /\ calls[c].result =
                     ownResult(calls[c].opts, calls[c].lookupResp, calls[c].publishResp)

\* Two tenants' calls interleaved: a looks up, b looks up, b publishes, a
\* publishes, and both have sent their own code.
C22_Witness ==
    /\ Len(wire) = 4
    /\ wire[1].call = "a" /\ wire[2].call = "b" /\ wire[3].call = "b" /\ wire[4].call = "a"
    /\ calls["a"].opts.accessKeyId # calls["b"].opts.accessKeyId
    /\ calls["a"].opts.phoneNumber # calls["b"].opts.phoneNumber
    /\ \A c \in CallIds : calls[c].pc = "done" /\ calls[c].result.success

====
